---- MODULE Spec2Model ----
(***************************************************************************)
(* Two-party commitment client (olafmersmann/twopc).                       *)
(*                                                                         *)
(*   mailbox.ts  (src/vitest.config.ts, lines 12-220)  session transport   *)
(*   app.ts      (src/assets/app.ts)                   commit-reveal FSM   *)
(*   state.ts    (src/unnamed/part_001)                store + listeners   *)
(*   crypto.ts   (src/unnamed/part_000)                primitives          *)
(*                                                                         *)
(* JavaScript runs one task at a time.  Every action below is one task:    *)
(* a socket event handler, a timer callback, a user call, or the           *)
(* continuation of one awaited operation, together with everything it      *)
(* calls synchronously (dispatch -> leaveState -> enterState -> callbacks  *)
(* -> app dispatch -> listeners -> mailbox.send ...).  The operators take  *)
(* the whole program state W (a record of the variables) and a party p     *)
(* and return the state after the call.  W.tr[p] is the list of what the   *)
(* task did so far, in order (frames written, callbacks invoked, log       *)
(* lines, rejections); it is not kept between tasks.                       *)
(*                                                                         *)
(* Specifications:                                                         *)
(*   Spec        one Mailbox, a direct client, an adversarial relay,       *)
(*               failing connections                                       *)
(*   SpecApp     one page (app.ts over its Mailbox) against a peer that    *)
(*               holds the shared secret and sends what it likes           *)
(*   SpecPair    two honest pages over a relay that forwards in order      *)
(*   SpecCommit  calculateCommitment on pairs of strings                   *)
(*   SpecCrypto  encryptMessage and decryptMessage on JSON values, byte by  *)
(*               byte, under the keys two key pairs derive                 *)
(***************************************************************************)
EXTENDS Integers, Sequences, FiniteSets, TLC

VARIABLES
  mbx,    \* mbx[p]  : the fields of p's Mailbox object
  task,   \* task[p] : p's pending asynchronous continuations and timers
  app,    \* app[p]  : p's store (state.ts `state`) and page
  socks,  \* every WebSocket object created so far, in creation order
  net,    \* the relay: its kind, and the frames queued for each party
  obs,    \* obs[p]  : facts about p's run so far that the properties refer to
  pure    \* inputs and outputs of the pure-function checks

vars == <<mbx, task, app, socks, net, obs, pure>>

(***************************************************************************)
(* Bounds.                                                                 *)
(***************************************************************************)
MaxConn == 3      \* WebSocket objects created per run
MaxPending == 2   \* awaited operations and timers one Mailbox has in flight
MaxStr == 2       \* length of message / random strings in the commitment check

Parties == {"alice", "bob"}
Peer(p) == IF p = "alice" THEN "bob" ELSE "alice"

(***************************************************************************)
(* Primitives (crypto.ts).  Keys are named by their owner; an HMAC tag is  *)
(* the pair of the signing secret and the signed key, so verification is   *)
(* equality with the recomputed tag; a DH-derived AES key is the set of    *)
(* the two key-pair owners, so both orders of one pair agree and any other *)
(* pairing differs.                                                        *)
(***************************************************************************)
NoKey == <<>>
NoSig == <<>>
NoSession == {}
SharedSecret == "S"

generateDHKeyPair(p) == [publicKey |-> <<"pk", p>>, privateKey |-> <<"sk", p>>]

signPk(key, pk) == <<key, pk>>

verifyPk(key, sig, pk) == sig = signPk(key, pk)

deriveSharedKey(pk, sk) == {pk[2], sk[2]}

\* A faulty variant: the message goes out as it is.
encryptMessagePlain(key, msg) == msg

encryptMessage(key, msg) == [type |-> "cryptogram", key |-> key, pt |-> msg]

\* AES-GCM fails closed: the plaintext comes back only under the same key.
decryptOk(key, frame) == frame.key = key


(***************************************************************************)
(* Strings are sequences of characters.  calculateCommitment joins message *)
(* and random with "\n" and hashes the bytes; SHA-256 and toHex are        *)
(* modelled as injective on their input (a tagged copy of the bytes).      *)
(***************************************************************************)
NL == "\n"

join2(a, b, sep) == a \o <<sep>> \o b

sha256(bytes) == <<"sha256", bytes>>

calculateCommitment(message, random) == sha256(join2(message, random, NL))

random16(p) == <<"r", p>>

(***************************************************************************)
(* Mailbox transition table and lookup (mailbox.ts).                       *)
(***************************************************************************)
transitions ==
  { <<"START", "KeyGenerated", "KEYED">>,
    <<"START", "KeyGenerationFailed", "FAIL">>,
    <<"KEYED", "WsOpen", "CONNECTED">>,
    <<"KEYED", "WsClose", "KEYED">>,
    <<"CONNECTED", "HandshakeRecieved", "GOT_HANDSHAKE">>,
    <<"CONNECTED", "WsReset", "CONNECTED">>,
    <<"CONNECTED", "WsClose", "RECONNECT">>,
    <<"GOT_HANDSHAKE", "SessionEstablished", "ESTABLISHED">>,
    <<"GOT_HANDSHAKE", "VerificationFailed", "FAIL">>,
    <<"GOT_HANDSHAKE", "WsReset", "CONNECTED">>,
    <<"GOT_HANDSHAKE", "WsClose", "RECONNECT">>,
    <<"ESTABLISHED", "WsReset", "CONNECTED">>,
    <<"ESTABLISHED", "HandshakeRecieved", "GOT_HANDSHAKE">>,
    <<"ESTABLISHED", "WsClose", "RECONNECT">>,
    <<"RECONNECT", "WsOpen", "CONNECTED">>,
    <<"RECONNECT", "WsReset", "RECONNECT">>,
    <<"RECONNECT", "WsClose", "RECONNECT">> }

\* A faulty variant of the lookup: an event without a row is ignored.
MailboxNextIgnoring(from, event) ==
  IF \E t \in transitions : t[1] = from /\ t[2] = event
    THEN (CHOOSE t \in transitions : t[1] = from /\ t[2] = event)[3]
    ELSE from

\* transitions.find(...) ?? { to: State.ERROR }
MailboxNext(from, event) ==
  IF \E t \in transitions : t[1] = from /\ t[2] = event
    THEN (CHOOSE t \in transitions : t[1] = from /\ t[2] = event)[3]
    ELSE "ERROR"

(***************************************************************************)
(* WebSocket objects.  rs is readyState; attached says whether onopen,     *)
(* onclose and onerror are set (the code sets and clears the three         *)
(* together; onmessage is set once and never cleared).  close() moves a    *)
(* CONNECTING or OPEN socket to CLOSING; its close event fires later.      *)
(* A browser delivers message events only while the socket is OPEN.        *)
(***************************************************************************)
NoWs == 0

NewSocket(p) == [owner |-> p, rs |-> "CONNECTING", attached |-> TRUE]

SockClose(W, i) ==
  IF W.socks[i].rs \in {"CONNECTING", "OPEN"}
    THEN [W EXCEPT !.socks[i].rs = "CLOSING"]
    ELSE W

SockDetach(W, i) == [W EXCEPT !.socks[i].attached = FALSE]

\* ws.send(data): throws on a CONNECTING socket, transmits on an OPEN one,
\* discards on a CLOSING or CLOSED one.
SockSendResult(W, i) ==
  CASE W.socks[i].rs = "CONNECTING" -> "throw"
    [] W.socks[i].rs = "OPEN" -> "sent"
    [] OTHER -> "dropped"

\* A transmitted frame reaches the relay, which queues it for the peer when
\* it forwards (net.mode = "relay"); otherwise the frame ends there.
Emit(W, p, e) == [W EXCEPT !.tr[p] = Append(@, e)]

Transmit(W, p, frame) ==
  LET W1 == Emit(W, p, <<"ws.send", frame>>)
  IN IF W.net.mode = "relay"
       THEN [W1 EXCEPT !.net.q[Peer(p)] = Append(@, frame)]
       ELSE W1

(***************************************************************************)
(* Mailbox.send and Mailbox.close (mailbox.ts).  send() checks the state   *)
(* and reads sessionKey when it is called; the encryption is awaited, and  *)
(* its continuation (EncryptDone below) writes to whatever this.ws is      *)
(* then.  k names what the caller chained with .then().                    *)
(***************************************************************************)
sendGuard(state) == state = "ESTABLISHED"

send(W, p, message, k) ==
  IF ~sendGuard(W.mbx[p].state)
    THEN Emit(W, p, <<"reject", "Not established">>)
    ELSE [Emit(W, p, <<"encryptMessage", message>>) EXCEPT !.task[p].enc =
            Append(@, [key |-> W.mbx[p].sessionKey, msg |-> message, k |-> k])]

close(W, p) ==
  IF W.mbx[p].ws # NoWs
    THEN SockClose(SockDetach(W, W.mbx[p].ws), W.mbx[p].ws)
    ELSE W

(***************************************************************************)
(* The protocol machine (app.ts) over the store (state.ts).  A nullable    *)
(* store field is None or Some(v).  update({appState: s}) assigns and runs *)
(* the listeners; the only listeners are the onEnter(...) registrations,   *)
(* which look at update.appState alone.                                    *)
(***************************************************************************)
None == <<>>
Some(v) == <<v>>

\* The table with SEND_COMMITMENT_FIRST + CommitmentSent leading straight to
\* BOTH_COMMITTED (a faulty variant, for comparison).
appTransitionsSkipPeer ==
  { <<"START", "SharedSecretSet", "SHARED_SECRET">>,
    <<"SHARED_SECRET", "Committed", "CAN_SEND_COMMITMENT">>,
    <<"SHARED_SECRET", "PeerConnectionEstablished", "CONNECTED">>,
    <<"CAN_SEND_COMMITMENT", "PeerConnectionEstablished", "SEND_COMMITMENT_FIRST">>,
    <<"SEND_COMMITMENT_FIRST", "CommitmentSent", "BOTH_COMMITTED">>,
    <<"CONNECTED", "Committed", "SEND_COMMITMENT_FIRST">>,
    <<"CONNECTED", "CommitmentRecieved", "THEY_COMMITTED">>,
    <<"I_COMMITTED", "CommitmentRecieved", "BOTH_COMMITTED">>,
    <<"THEY_COMMITTED", "Committed", "SEND_COMMITMENT_SECOND">>,
    <<"SEND_COMMITMENT_SECOND", "CommitmentSent", "BOTH_COMMITTED">>,
    <<"BOTH_COMMITTED", "RevealSent", "I_REVEALED">>,
    <<"BOTH_COMMITTED", "RevealRecieved", "THEY_REVEALED">>,
    <<"I_REVEALED", "RevealRecieved", "BOTH_REVEALED">>,
    <<"THEY_REVEALED", "RevealSent", "BOTH_REVEALED">> }

appTransitions ==
  { <<"START", "SharedSecretSet", "SHARED_SECRET">>,
    <<"SHARED_SECRET", "Committed", "CAN_SEND_COMMITMENT">>,
    <<"SHARED_SECRET", "PeerConnectionEstablished", "CONNECTED">>,
    <<"CAN_SEND_COMMITMENT", "PeerConnectionEstablished", "SEND_COMMITMENT_FIRST">>,
    <<"SEND_COMMITMENT_FIRST", "CommitmentSent", "I_COMMITTED">>,
    <<"CONNECTED", "Committed", "SEND_COMMITMENT_FIRST">>,
    <<"CONNECTED", "CommitmentRecieved", "THEY_COMMITTED">>,
    <<"I_COMMITTED", "CommitmentRecieved", "BOTH_COMMITTED">>,
    <<"THEY_COMMITTED", "Committed", "SEND_COMMITMENT_SECOND">>,
    <<"SEND_COMMITMENT_SECOND", "CommitmentSent", "BOTH_COMMITTED">>,
    <<"BOTH_COMMITTED", "RevealSent", "I_REVEALED">>,
    <<"BOTH_COMMITTED", "RevealRecieved", "THEY_REVEALED">>,
    <<"I_REVEALED", "RevealRecieved", "BOTH_REVEALED">>,
    <<"THEY_REVEALED", "RevealSent", "BOTH_REVEALED">> }

\* A faulty variant of the lookup: the own reveal alone completes the run.
AppNextRevealAtOnce(from, event) ==
  IF from = "BOTH_COMMITTED" /\ event = "RevealSent" THEN "BOTH_REVEALED"
  ELSE IF \E t \in appTransitions : t[1] = from /\ t[2] = event
    THEN (CHOOSE t \in appTransitions : t[1] = from /\ t[2] = event)[3]
    ELSE "FAIL"

\* A faulty variant of the lookup: a second Committed after the own
\* commitment was sent sends it again.
AppNextCommitAgain(from, event) ==
  IF from = "I_COMMITTED" /\ event = "Committed" THEN "SEND_COMMITMENT_FIRST"
  ELSE IF \E t \in appTransitions : t[1] = from /\ t[2] = event
    THEN (CHOOSE t \in appTransitions : t[1] = from /\ t[2] = event)[3]
    ELSE "FAIL"

\* transitions.find(...) ?? { to: AppState.FAIL }
AppNext(from, event) ==
  IF \E t \in appTransitions : t[1] = from /\ t[2] = event
    THEN (CHOOSE t \in appTransitions : t[1] = from /\ t[2] = event)[3]
    ELSE "FAIL"

\* onEnter(SEND_COMMITMENT_FIRST) and onEnter(SEND_COMMITMENT_SECOND)
SendCommitment(W, p) ==
  IF ~W.app[p].mailbox \/ W.app[p].myCommitment = None
    THEN W                                              \* assertDefined throws
    ELSE send([W EXCEPT !.obs[p].commitCalls = @ + 1], p,
              [type |-> "commitment", commitment |-> W.app[p].myCommitment[1]],
              "CommitmentSent")

\* A faulty variant: the reveal carries a random generated anew instead of
\* the one in the store.
SendRevealNewRandom(W, p) ==
  IF ~W.app[p].mailbox \/ W.app[p].myMessage = None \/ W.app[p].myRandom = None
    THEN W
    ELSE send([W EXCEPT !.obs[p].revealCalls = @ + 1], p,
              [type |-> "reveal", message |-> W.app[p].myMessage[1],
               random |-> random16(Peer(p))],
              "RevealSent")

\* onEnter(BOTH_COMMITTED)
SendReveal(W, p) ==
  IF ~W.app[p].mailbox \/ W.app[p].myMessage = None \/ W.app[p].myRandom = None
    THEN W
    ELSE send([W EXCEPT !.obs[p].revealCalls = @ + 1], p,
              [type |-> "reveal", message |-> W.app[p].myMessage[1],
               random |-> W.app[p].myRandom[1]],
              "RevealSent")

\* onEnter(BOTH_REVEALED): the values are read from the store here; the
\* comparison runs when calculateCommitment resolves (VerifyDone below).
StartVerify(W, p) ==
  LET a == W.app[p] IN
  IF ~a.mailbox \/ a.theirCommitment = None \/ a.theirMessage = None \/ a.theirRandom = None
    THEN W
    ELSE [close(W, p) EXCEPT !.task[p].verify =
            Append(@, [theirCommitment |-> a.theirCommitment[1],
                       theirMessage |-> a.theirMessage[1],
                       theirRandom |-> a.theirRandom[1]])]

\* Which states' onEnter action sends the reveal.
\* A faulty variant: the reveal is sent as soon as either side committed.
revealOnEnterEarly(s) == s \in {"BOTH_COMMITTED", "I_COMMITTED", "THEY_COMMITTED"}

revealOnEnter(s) == s = "BOTH_COMMITTED"

\* The synchronous part of the onEnter action registered for state s.
onEnter(W, p, s) ==
  CASE s = "START" -> [W EXCEPT !.task[p].secret = TRUE]
    [] s = "SHARED_SECRET" ->
         IF W.app[p].sharedSecret = None THEN W
         ELSE [W EXCEPT !.task[p].mailboxId = @ + 1]
    [] s \in {"SEND_COMMITMENT_FIRST", "SEND_COMMITMENT_SECOND"} -> SendCommitment(W, p)
    [] revealOnEnter(s) -> SendReveal(W, p)
    [] s = "BOTH_REVEALED" -> StartVerify(W, p)
    [] s = "FAIL" -> [W EXCEPT !.app[p].errorOverlay = TRUE]
    [] OTHER -> W

\* update({ appState: s })
updateAppState(W, p, s) ==
  onEnter([W EXCEPT !.app[p].appState = s,
                    !.obs[p].entered = @ \cup {s}], p, s)

\* dispatch(event) of app.ts
appDispatch(W, p, event) ==
  LET from == W.app[p].appState
      to == AppNext(from, event)
  IN updateAppState(Emit(W, p, <<"TwoPC FSM", from, event, to>>), p, to)

(***************************************************************************)
(* The Mailbox callbacks.  The fields onConnect, onMessage, onDisconnect   *)
(* hold "noop" (the class defaults) or one of the closures app.ts          *)
(* installs: "first" (the onConnect set in onEnter(SHARED_SECRET)), which  *)
(* replaces itself and onDisconnect with the overlay handlers and          *)
(* dispatches PeerConnectionEstablished, and "app" (mailbox.onMessage).    *)
(***************************************************************************)
\* A faulty variant: the handler installed after the first connection
\* dispatches PeerConnectionEstablished as the first one does.
onConnectDispatching(W, p) ==
  LET W1 == Emit(W, p, <<"onConnect">>) IN
  IF W.mbx[p].onConnect \in {"first", "overlay"}
    THEN appDispatch([W1 EXCEPT !.mbx[p].onDisconnect = "overlay",
                                !.mbx[p].onConnect = "overlay"],
                     p, "PeerConnectionEstablished")
    ELSE W1

onConnect(W, p) ==
  LET W1 == Emit(W, p, <<"onConnect">>) IN
  CASE W.mbx[p].onConnect = "first" ->
         appDispatch([W1 EXCEPT !.mbx[p].onDisconnect = "overlay",
                                !.mbx[p].onConnect = "overlay"],
                     p, "PeerConnectionEstablished")
    [] W.mbx[p].onConnect = "overlay" -> [W1 EXCEPT !.app[p].reconnectOverlay = FALSE]
    [] OTHER -> W1

onDisconnect(W, p) ==
  LET W1 == Emit(W, p, <<"onDisconnect">>) IN
  IF W.mbx[p].onDisconnect = "overlay"
    THEN [W1 EXCEPT !.app[p].reconnectOverlay = TRUE]
    ELSE W1

\* obs[p].crSeen counts the commitment messages handled (0, 1, or 2 for
\* "more than one"); gotCommitment and gotReveal keep the first of each.
onMessage(W, p, msg) ==
  LET W1 == Emit(W, p, <<"onMessage", msg>>) IN
  IF W.mbx[p].onMessage # "app" THEN W1
  ELSE CASE msg.type = "commitment" ->
              appDispatch([W1 EXCEPT !.app[p].theirCommitment = Some(msg.commitment),
                                     !.obs[p].crSeen = IF @ < 2 THEN @ + 1 ELSE @,
                                     !.obs[p].gotCommitment =
                                        IF @ = None THEN Some(msg.commitment) ELSE @],
                          p, "CommitmentRecieved")
         [] msg.type = "reveal" ->
              appDispatch([W1 EXCEPT !.app[p].theirMessage = Some(msg.message),
                                     !.app[p].theirRandom = Some(msg.random),
                                     !.obs[p].gotReveal =
                                        IF @ = None THEN Some(<<msg.message, msg.random>>)
                                        ELSE @],
                          p, "RevealRecieved")
         [] OTHER -> W1

(***************************************************************************)
(* Mailbox: leaveState, openWebSocket, the two async helpers' synchronous  *)
(* starts, enterState and dispatch.                                        *)
(***************************************************************************)
\* A faulty variant: leaving a state calls nothing.
leaveStateSilently(W, p) == W

leaveState(W, p) ==
  IF W.mbx[p].state = "ESTABLISHED" THEN onDisconnect(W, p) ELSE W

\* this.ws?.close(); this.ws = new WebSocket(url); handlers set on the new one.
\* The old socket keeps its handlers.
openWebSocket(W, p) ==
  LET W1 == IF W.mbx[p].ws # NoWs THEN SockClose(W, W.mbx[p].ws) ELSE W
      W2 == [W1 EXCEPT !.socks = Append(@, NewSocket(p))]
  IN Emit([W2 EXCEPT !.mbx[p].ws = Len(W2.socks)], p, <<"new WebSocket", Len(W2.socks)>>)

\* A faulty variant of the CONNECTED entry: no handshake is sent.
sendHanshakeNever(W, p) == W

\* sendHanshake up to its first await; HandshakeSendDone is the rest.
sendHanshake(W, p) ==
  IF W.mbx[p].dhKeyPair = None THEN W                   \* assertDefined throws
  ELSE [W EXCEPT !.task[p].hs = @ + 1]

\* deriveSessionKey up to its first await: importPk(this.peerKey) is called
\* with the peer key of this moment.
deriveSessionKey(W, p) ==
  IF W.mbx[p].peerKey = NoKey \/ W.mbx[p].peerSig = NoSig THEN W
  ELSE [W EXCEPT !.task[p].derive =
                   Append(@, [stage |-> "import", pk |-> W.mbx[p].peerKey, ok |-> FALSE,
                              hsSig |-> W.mbx[p].peerSig])]

\* A faulty variant of the RECONNECT entry: reopen at once, no timer.
reconnectNow(W, p) == openWebSocket(W, p)

\* case State.RECONNECT: drop and close the socket, then
\* setTimeout(() => this.openWebSocket(), 2000)
reconnectLater(W, p) ==
  LET ws == W.mbx[p].ws
      W1 == [W EXCEPT !.mbx[p].ws = NoWs]
      W2 == IF ws # NoWs THEN SockClose(SockDetach(W1, ws), ws) ELSE W1
  IN Emit([W2 EXCEPT !.task[p].timers = @ + 1], p, <<"setTimeout", 2000>>)

enterState(W, p) ==
  LET st == W.mbx[p].state IN
  CASE st = "START" -> [W EXCEPT !.task[p].keygen = TRUE]
    [] st = "KEYED" -> openWebSocket(W, p)
    [] st = "CONNECTED" -> sendHanshake(W, p)
    [] st = "GOT_HANDSHAKE" -> deriveSessionKey(W, p)
    [] st = "ESTABLISHED" -> onConnect(W, p)
    [] st = "RECONNECT" -> reconnectLater(W, p)
    [] OTHER -> W                                       \* ERROR, FAIL

dispatch(W, p, event) ==
  LET from == W.mbx[p].state
      to == MailboxNext(from, event)
      W0 == Emit(W, p, <<"Mailbox FSM", from, event, to>>)     \* console.debug
      W1 == leaveState(W0, p)
      W2 == [W1 EXCEPT !.mbx[p].state = to]
  IN enterState(W2, p)

\* new Mailbox(url, sharedSecret)
newMailbox(W, p) ==
  enterState([W EXCEPT !.mbx[p].state = "START"], p)

(***************************************************************************)
(* ws.onmessage.  Frames are parsed JSON objects with a type field.        *)
(***************************************************************************)
onmessage(W, p, msg) ==
  CASE msg.type = "reset" -> dispatch(W, p, "WsReset")
    [] msg.type = "handshake" ->
         dispatch([W EXCEPT !.mbx[p].peerKey = msg.pk, !.mbx[p].peerSig = msg.sig],
                  p, "HandshakeRecieved")
    [] msg.type = "cryptogram" ->
         IF W.mbx[p].state = "ESTABLISHED"
           THEN [W EXCEPT !.task[p].dec =
                            Append(@, [key |-> W.mbx[p].sessionKey, frame |-> msg])]
           ELSE Emit(W, p, <<"warn", "Got cryptogram in state", W.mbx[p].state>>)
    [] OTHER -> W

(***************************************************************************)
(* The state as one record, and the step that installs a new one.  A step  *)
(* that would create more than MaxConn sockets, or leave more than         *)
(* MaxPending operations of one Mailbox in flight, is not taken.           *)
(***************************************************************************)
World == [mbx |-> mbx, task |-> task, app |-> app, socks |-> socks, net |-> net,
          obs |-> obs, tr |-> [p \in Parties |-> <<>>]]

Pending(t) == t.hs + Len(t.derive) + Len(t.enc) + Len(t.dec) + t.timers

Install(W) ==
  /\ Len(W.socks) <= MaxConn
  /\ \A p \in Parties : Pending(W.task[p]) <= MaxPending
  /\ mbx' = W.mbx
  /\ task' = W.task
  /\ app' = W.app
  /\ socks' = W.socks
  /\ net' = W.net
  /\ obs' = W.obs
  /\ UNCHANGED pure

Remove(s, i) == SubSeq(s, 1, i - 1) \o SubSeq(s, i + 1, Len(s))

(***************************************************************************)
(* Continuations of the Mailbox's awaited operations: for each, what it    *)
(* does to the state (...Fx) and the action that runs it.                  *)
(***************************************************************************)
\* generateDHKeyPair() resolved: .then(keypair => this.dhKeyPair = keypair)
\*                               .then(() => this.dispatch(KeyGenerated))
KeyGeneratedFx(W, p) ==
  dispatch([W EXCEPT !.task[p].keygen = FALSE,
                     !.mbx[p].dhKeyPair = Some(generateDHKeyPair(p))],
           p, "KeyGenerated")

KeyGenerated(p) == task[p].keygen /\ Install(KeyGeneratedFx(World, p))

\* generateDHKeyPair() rejected: the chain has no rejection handler.
KeyGenerationRejected(p) ==
  task[p].keygen /\ Install([World EXCEPT !.task[p].keygen = FALSE])

\* sendHanshake after exportKey and signPk resolved (they read only the key
\* pair and the shared secret, which never change once set).
HandshakeSendDoneFx(W, p) ==
  LET W1 == [W EXCEPT !.task[p].hs = @ - 1]
      ws == W.mbx[p].ws
      pk == W.mbx[p].dhKeyPair[1].publicKey
      msg == [type |-> "handshake", pk |-> pk, sig |-> signPk(SharedSecret, pk)]
  IN IF ws # NoWs /\ SockSendResult(W1, ws) = "sent" THEN Transmit(W1, p, msg) ELSE W1

HandshakeSendDone(p) == task[p].hs > 0 /\ Install(HandshakeSendDoneFx(World, p))

\* deriveSessionKey after `await c.importPk(...)`: verifyPk is called with
\* the peerSig of this moment and the key imported earlier.
DeriveImportedFx(W, p, i) ==
  [W EXCEPT !.task[p].derive[i] =
     [stage |-> "verify", pk |-> @.pk, hsSig |-> @.hsSig,
      ok |-> verifyPk(SharedSecret, W.mbx[p].peerSig, @.pk)]]

DeriveImported(p, i) ==
  task[p].derive[i].stage = "import" /\ Install(DeriveImportedFx(World, p, i))

\* A faulty variant: the result of verifyPk is ignored.
verifiedAlways(isOk) == TRUE

\* `if (isOk)` in deriveSessionKey
verified(isOk) == isOk

\* deriveSessionKey after verifyPk resolved, and for isOk after
\* deriveSharedKey resolved (a call on the imported key and the own private
\* key, which reads nothing that changes).
DeriveDoneFx(W, p, i) ==
  LET t == W.task[p].derive[i]
      W1 == Emit([W EXCEPT !.task[p].derive = Remove(@, i),
                           !.obs[p].verifiedOk = IF t.ok THEN @ \cup {t.pk} ELSE @],
                 p, <<"verifyPk", t.pk, t.hsSig, t.ok>>)
  IN IF verified(t.ok)
       THEN dispatch([W1 EXCEPT !.mbx[p].sessionKey =
                        deriveSharedKey(t.pk, W.mbx[p].dhKeyPair[1].privateKey)],
                     p, "SessionEstablished")
       ELSE dispatch(W1, p, "VerificationFailed")

DeriveDone(p, i) ==
  task[p].derive[i].stage = "verify" /\ Install(DeriveDoneFx(World, p, i))

\* send() after encryptMessage resolved: this.ws!.send(...), then the
\* caller's .then() when that did not throw.
EncryptDoneFx(W, p, i) ==
  LET t == W.task[p].enc[i]
      W0 == [W EXCEPT !.task[p].enc = Remove(@, i)]
      ws == W.mbx[p].ws
      res == IF ws = NoWs THEN "throw" ELSE SockSendResult(W0, ws)
      W1 == IF res = "sent" THEN Transmit(W0, p, encryptMessage(t.key, t.msg)) ELSE W0
      W2 == Emit(W1, p, <<"send", IF res = "throw" THEN "rejected" ELSE "resolved">>)
  IN IF res # "throw" /\ t.k # "none" THEN appDispatch(W2, p, t.k) ELSE W2

EncryptDone(p, i) == Install(EncryptDoneFx(World, p, i))

\* onmessage after decryptMessage resolved: .then(pt => this.onMessage(pt));
\* a failed decryption rejects and nothing handles it.
DecryptDoneFx(W, p, i) ==
  LET t == W.task[p].dec[i]
      W1 == [W EXCEPT !.task[p].dec = Remove(@, i)]
  IN IF decryptOk(t.key, t.frame) THEN onMessage(W1, p, t.frame.pt) ELSE W1

DecryptDone(p, i) == Install(DecryptDoneFx(World, p, i))

\* setTimeout(() => this.openWebSocket(), 2000) fires.
TimerFiredFx(W, p) == openWebSocket([W EXCEPT !.task[p].timers = @ - 1], p)

TimerFired(p) == task[p].timers > 0 /\ Install(TimerFiredFx(World, p))

(***************************************************************************)
(* WebSocket events.                                                       *)
(***************************************************************************)
WsOpenedFx(W, i) ==
  LET W1 == [W EXCEPT !.socks[i].rs = "OPEN"]
  IN IF W.socks[i].attached THEN dispatch(W1, W.socks[i].owner, "WsOpen") ELSE W1

WsOpened(i) == socks[i].rs = "CONNECTING" /\ Install(WsOpenedFx(World, i))

\* The close event of a socket that was closed by close() or by the peer.
WsClosedFx(W, i) ==
  LET W1 == [W EXCEPT !.socks[i].rs = "CLOSED"]
  IN IF W.socks[i].attached THEN dispatch(W1, W.socks[i].owner, "WsClose") ELSE W1

WsClosed(i) ==
  /\ socks[i].rs \in {"OPEN", "CLOSING"}
  /\ net.faults \/ socks[i].rs = "CLOSING"
  /\ Install(WsClosedFx(World, i))

\* A failed connection: the error event, then the close event, each going
\* to the handler set at that moment.
WsFailedFx(W, i) ==
  LET W1 == WsClosedFx(W, i)
  IN IF W1.socks[i].attached THEN dispatch(W1, W.socks[i].owner, "WsClose") ELSE W1

WsFailed(i) ==
  /\ socks[i].rs \in {"CONNECTING", "OPEN"}
  /\ net.faults
  /\ Install(WsFailedFx(World, i))

(***************************************************************************)
(* Inbound frames.  Three environments: an adversarial relay that injects  *)
(* any frame it can build without the shared secret or a session key, or   *)
(* by replaying what the peer signed ("adversary"); a peer that holds the  *)
(* shared secret and the session key and sends what it likes ("peer");     *)
(* and a relay that forwards the other party's frames in order ("relay").  *)
(***************************************************************************)
PkOf(who) == <<"pk", who>>

HandshakeFrame(pk, sig) == [type |-> "handshake", pk |-> pk, sig |-> sig]

ResetFrame == [type |-> "reset"]

Ping == [type |-> "ping"]

\* The peer's signed key; that key under a tag made with another secret; a
\* foreign key under the peer's tag.
AdversaryFrames ==
  { ResetFrame,
    HandshakeFrame(PkOf("bob"), signPk(SharedSecret, PkOf("bob"))),
    HandshakeFrame(PkOf("bob"), signPk("X", PkOf("bob"))),
    HandshakeFrame(PkOf("eve"), signPk(SharedSecret, PkOf("bob"))),
    encryptMessage({"alice", "bob"}, Ping),
    encryptMessage({"alice", "eve"}, Ping) }

\* What the peer's page can send: commitments to and reveals of its
\* messages, built as the page builds them (string fields).
PeerStrings == {<<"y">>, <<"z">>}

PeerPayloads ==
  { [type |-> "commitment", commitment |-> calculateCommitment(m, random16("bob"))] :
      m \in PeerStrings }
  \cup { [type |-> "reveal", message |-> m, random |-> random16("bob")] : m \in PeerStrings }

PeerFrames ==
  {ResetFrame, HandshakeFrame(PkOf("bob"), signPk(SharedSecret, PkOf("bob")))}
  \cup { encryptMessage({"alice", "bob"}, pt) : pt \in PeerPayloads }

AdversaryDeliver(i, f) ==
  /\ net.mode = "adversary"
  /\ socks[i].rs = "OPEN"
  /\ Install(onmessage(World, socks[i].owner, f))

PeerDeliver(i, f) ==
  /\ net.mode = "peer"
  /\ socks[i].rs = "OPEN"
  /\ Install(onmessage(World, socks[i].owner, f))

RelayDeliver(p) ==
  /\ net.mode = "relay"
  /\ net.q[p] # <<>>
  /\ mbx[p].ws # NoWs
  /\ socks[mbx[p].ws].rs = "OPEN"
  /\ Install(onmessage([World EXCEPT !.net.q[p] = Tail(@)], p, Head(net.q[p])))

(***************************************************************************)
(* A client that uses the Mailbox directly (as mailbox.test.ts does).      *)
(***************************************************************************)
ClientSend(p) ==
  /\ net.mode = "adversary"
  /\ mbx[p].state # "none"
  /\ Install(send(World, p, Ping, "none"))

ClientClose(p) ==
  /\ net.mode = "adversary"
  /\ mbx[p].state # "none"
  /\ Install(close(World, p))

(***************************************************************************)
(* The page (app.ts): continuations of the onEnter actions, the commit     *)
(* button and the verification.                                            *)
(***************************************************************************)
\* onEnter(START) after generateSharedSecret / decodeUrlSecret resolved:
\* update(changes); dispatch(SharedSecretSet).
SharedSecretReadyFx(W, p) ==
  appDispatch([W EXCEPT !.task[p].secret = FALSE,
                        !.app[p].myRandom = Some(random16(p)),
                        !.app[p].sharedSecret = Some(SharedSecret)],
              p, "SharedSecretSet")

SharedSecretReady(p) == task[p].secret /\ Install(SharedSecretReadyFx(World, p))

\* onEnter(SHARED_SECRET) after mailboxId resolved: the message form is
\* shown, the Mailbox is constructed, its callbacks are set, update({mailbox}).
MailboxIdReadyFx(W, p) ==
  LET W1 == newMailbox([W EXCEPT !.task[p].mailboxId = @ - 1,
                                 !.app[p].commitBtn = "enabled"], p)
  IN [W1 EXCEPT !.mbx[p].onConnect = "first",
                !.mbx[p].onMessage = "app",
                !.app[p].mailbox = TRUE]

MailboxIdReady(p) == task[p].mailboxId > 0 /\ Install(MailboxIdReadyFx(World, p))

UserMessages == {<<"x">>}

\* Click on #commit-btn: the controls of the form are disabled and
\* calculateCommitment(myMessage, myRandom) starts.
CommitClickedFx(W, p, m) ==
  [W EXCEPT !.app[p].commitBtn = "disabled",
            !.task[p].commit =
               Append(@, [myMessage |-> m,
                          myCommitment |-> calculateCommitment(m, W.app[p].myRandom[1])])]

CommitClicked(p) ==
  /\ app[p].commitBtn = "enabled"
  /\ app[p].myRandom # None
  /\ \E m \in UserMessages : Install(CommitClickedFx(World, p, m))

\* ... .then(myCommitment => { update({myMessage, myCommitment}); dispatch(Committed) })
CommitmentCalculatedFx(W, p) ==
  LET t == Head(W.task[p].commit)
  IN appDispatch([W EXCEPT !.task[p].commit = Tail(@),
                           !.app[p].myMessage = Some(t.myMessage),
                           !.app[p].myCommitment = Some(t.myCommitment)],
                 p, "Committed")

CommitmentCalculated(p) ==
  task[p].commit # <<>> /\ Install(CommitmentCalculatedFx(World, p))

\* A faulty variant: the comparison always passes.
checkPassesAlways(checkCommitment, theirCommitment) == TRUE

\* `if (checkCommitment === theirCommitment)`
checkPasses(checkCommitment, theirCommitment) == checkCommitment = theirCommitment

\* onEnter(BOTH_REVEALED) after calculateCommitment resolved, on the values
\* read when the state was entered.
VerifyDoneFx(W, p) ==
  LET t == Head(W.task[p].verify)
      checkCommitment == calculateCommitment(t.theirMessage, t.theirRandom)
  IN [W EXCEPT !.task[p].verify = Tail(@),
               !.app[p].verdict =
                  IF checkPasses(checkCommitment, t.theirCommitment)
                    THEN "pass" ELSE "fail"]

VerifyDone(p) == task[p].verify # <<>> /\ Install(VerifyDoneFx(World, p))

(***************************************************************************)
(* Initial states and specifications.                                      *)
(***************************************************************************)
\* A party's Mailbox before `new Mailbox(...)` has run (state "none"), with
\* the field initialisers of the class.
Mailbox0 ==
  [state |-> "none", ws |-> NoWs, dhKeyPair |-> None, sessionKey |-> NoSession,
   peerKey |-> NoKey, peerSig |-> NoSig,
   onConnect |-> "noop", onMessage |-> "noop", onDisconnect |-> "noop"]

Task0 ==
  [keygen |-> FALSE, hs |-> 0, derive |-> <<>>, enc |-> <<>>, dec |-> <<>>,
   timers |-> 0, secret |-> FALSE, mailboxId |-> 0, commit |-> <<>>, verify |-> <<>>]

\* state.ts `state`, and the parts of the page the handlers read or write.
Store0 ==
  [appState |-> "START", sharedSecret |-> None, mailbox |-> FALSE,
   myRandom |-> None, myMessage |-> None, myCommitment |-> None,
   theirCommitment |-> None, theirMessage |-> None, theirRandom |-> None,
   commitBtn |-> "hidden", verdict |-> "none",
   errorOverlay |-> FALSE, reconnectOverlay |-> FALSE]

Obs0 ==
  [verifiedOk |-> {}, entered |-> {}, commitCalls |-> 0, revealCalls |-> 0,
   crSeen |-> 0, gotCommitment |-> None, gotReveal |-> None]

Pure0 == [m1 |-> <<>>, r1 |-> <<>>, m2 |-> <<>>, r2 |-> <<>>, c1 |-> None, c2 |-> None]

World0(mode, faults) ==
  [mbx |-> [p \in Parties |-> Mailbox0],
   task |-> [p \in Parties |-> Task0],
   app |-> [p \in Parties |-> Store0],
   socks |-> <<>>,
   net |-> [mode |-> mode, q |-> [p \in Parties |-> <<>>], faults |-> faults],
   obs |-> [p \in Parties |-> Obs0],
   tr |-> [p \in Parties |-> <<>>]]

StartIn(W) ==
  /\ mbx = W.mbx
  /\ task = W.task
  /\ app = W.app
  /\ socks = W.socks
  /\ net = W.net
  /\ obs = W.obs
  /\ pure = Pure0

\* The transport alone: `new Mailbox(url, sharedSecret)` has run for alice,
\* the callbacks are the defaults, the relay is adversarial.
Init == StartIn(newMailbox(World0("adversary", TRUE), "alice"))

MailboxStep(p) ==
  \/ KeyGenerated(p)
  \/ HandshakeSendDone(p)
  \/ \E i \in 1..Len(task[p].derive) : DeriveImported(p, i)
  \/ \E i \in 1..Len(task[p].derive) : DeriveDone(p, i)
  \/ \E i \in 1..Len(task[p].enc) : EncryptDone(p, i)
  \/ \E i \in 1..Len(task[p].dec) : DecryptDone(p, i)

FaultStep ==
  \/ \E p \in Parties : KeyGenerationRejected(p)
  \/ \E p \in Parties : TimerFired(p)
  \/ \E i \in 1..Len(socks) : WsFailed(i)

SocketStep ==
  \/ \E i \in 1..Len(socks) : WsOpened(i)
  \/ \E i \in 1..Len(socks) : WsClosed(i)

Next ==
  \/ \E p \in Parties : MailboxStep(p)
  \/ SocketStep
  \/ FaultStep
  \/ \E i \in 1..Len(socks), f \in AdversaryFrames : AdversaryDeliver(i, f)
  \/ \E p \in Parties : ClientSend(p)
  \/ \E p \in Parties : ClientClose(p)

Spec == Init /\ [][Next]_vars

\* The page of one party (alice) after app.ts has loaded, i.e. after
\* update({ appState: AppState.START }); the peer holds the shared secret
\* and sends what it likes, including resets and new handshakes, and the
\* connection can close at any time.  The run is followed up to the
\* reconnect attempt (reconnecting is covered by Spec).
InitApp == StartIn(updateAppState(World0("peer", TRUE), "alice", "START"))

PageStep(p) ==
  \/ SharedSecretReady(p)
  \/ MailboxIdReady(p)
  \/ CommitClicked(p)
  \/ CommitmentCalculated(p)
  \/ VerifyDone(p)

NextApp ==
  \/ \E p \in Parties : PageStep(p)
  \/ \E p \in Parties : MailboxStep(p)
  \/ SocketStep
  \/ \E i \in 1..Len(socks), f \in PeerFrames : PeerDeliver(i, f)

SpecApp == InitApp /\ [][NextApp]_vars

\* Two honest parties, each running the page, holding the same shared
\* secret, over a relay that forwards every frame in order; no connection
\* fails (a socket closes only after its owner closed it).
InitPair ==
  StartIn(updateAppState(updateAppState(World0("relay", FALSE), "alice", "START"),
                         "bob", "START"))

NextPair ==
  \/ \E p \in Parties : PageStep(p)
  \/ \E p \in Parties : MailboxStep(p)
  \/ SocketStep
  \/ \E p \in Parties : RelayDeliver(p)

SpecPair == InitPair /\ [][NextPair]_vars

\* calculateCommitment on two pairs of strings over a two-letter alphabet
\* that contains the separator.
Chars == {"a", NL}

Strings == UNION { [1..k -> Chars] : k \in 0..MaxStr }

InitCommit ==
  /\ mbx = World0("none", FALSE).mbx
  /\ task = World0("none", FALSE).task
  /\ app = World0("none", FALSE).app
  /\ socks = <<>>
  /\ net = World0("none", FALSE).net
  /\ obs = World0("none", FALSE).obs
  /\ pure \in [m1 : Strings, r1 : Strings, m2 : Strings, r2 : Strings,
               c1 : {None}, c2 : {None}]

Commit ==
  /\ pure.c1 = None
  /\ pure' = [pure EXCEPT !.c1 = Some(calculateCommitment(pure.m1, pure.r1)),
                          !.c2 = Some(calculateCommitment(pure.m2, pure.r2))]
  /\ UNCHANGED <<mbx, task, app, socks, net, obs>>

SpecCommit == InitCommit /\ [][Commit]_vars
(***************************************************************************)
(* Properties of the transport (specification Spec).  What a handler does  *)
(* within its task is read off the handler's effect on the current state:  *)
(* H(World, ...).tr[p] is what it writes, calls and logs.                  *)
(***************************************************************************)
\* The session keys p can derive from peer keys whose tag verified.
VerifiedSessionKeys(p) ==
  { deriveSharedKey(pk, generateDHKeyPair(p).privateKey) : pk \in obs[p].verifiedOk }

\* The cryptogram frames a task wrote to the connection.
CryptogramsWritten(tr) ==
  Cardinality({ k \in 1..Len(tr) : tr[k][1] = "ws.send" /\ tr[k][2].type = "cryptogram" })

Invoked(tr, callback) == \E k \in 1..Len(tr) : tr[k] = <<callback>>

\* C1: the Mailbox is in ESTABLISHED only after verifyPk has returned true
\* for a received handshake signature under the shared secret; the installed
\* session key, and the key every pending encryption or decryption was
\* started with, is one derived from a peer key that passed that check; and
\* a verification that returned false neither installs a key nor enters
\* ESTABLISHED.
C1EstablishedOnlyAfterVerification ==
  \A p \in Parties :
    /\ mbx[p].state = "ESTABLISHED" => obs[p].verifiedOk # {}
    /\ mbx[p].sessionKey # NoSession => mbx[p].sessionKey \in VerifiedSessionKeys(p)
    /\ \A i \in 1..Len(task[p].enc) : task[p].enc[i].key \in VerifiedSessionKeys(p)
    /\ \A i \in 1..Len(task[p].dec) : task[p].dec[i].key \in VerifiedSessionKeys(p)
    /\ \A i \in 1..Len(task[p].derive) :
         task[p].derive[i].stage = "verify" /\ ~task[p].derive[i].ok
           => LET W2 == DeriveDoneFx(World, p, i)
              IN /\ W2.mbx[p].state # "ESTABLISHED"
                 /\ W2.mbx[p].sessionKey = mbx[p].sessionKey

\* C1 witness: established after a verified handshake, with an encryption
\* and a decryption under the session key pending.
C1EstablishedAndInUse ==
  /\ mbx["alice"].state = "ESTABLISHED"
  /\ mbx["alice"].sessionKey = {"alice", "bob"}
  /\ task["alice"].enc # <<>>
  /\ task["alice"].dec # <<>>

\* C8: send() in a state other than ESTABLISHED rejects with "Not
\* established" and starts nothing, and every send() accepted in ESTABLISHED
\* writes exactly one cryptogram frame when its encryption completes.
C8SendWritesExactlyOneFrame ==
  \A p \in Parties :
    /\ mbx[p].state \notin {"none", "ESTABLISHED"}
         => LET W2 == send(World, p, Ping, "none")
            IN /\ W2.tr[p] = << <<"reject", "Not established">> >>
               /\ W2.task = task
    /\ \A i \in 1..Len(task[p].enc) :
         CryptogramsWritten(EncryptDoneFx(World, p, i).tr[p]) = 1

\* C9: the verification of a handshake whose signature does not match its
\* key under the shared secret ends with the Mailbox in FAIL and without
\* onConnect, whatever arrived while it was in flight, and send() is
\* rejected afterwards.
C9InvalidHandshakeEndsInFail ==
  \A p \in Parties : \A i \in 1..Len(task[p].derive) :
    LET t == task[p].derive[i] IN
    t.stage = "verify" /\ ~verifyPk(SharedSecret, t.hsSig, t.pk)
      => LET W2 == DeriveDoneFx(World, p, i)
         IN /\ W2.mbx[p].state = "FAIL"
            /\ ~Invoked(W2.tr[p], "onConnect")
            /\ send(W2, p, Ping, "none").task = W2.task

\* A close or error event of socket i is handled in this step: the socket
\* had its handlers and is now CLOSED.
CloseEventHandled(i) ==
  /\ socks[i].attached
  /\ socks[i].rs # "CLOSED"
  /\ socks'[i].rs = "CLOSED"

ClosedOn(p) == \E i \in 1..Len(socks) : socks[i].owner = p /\ CloseEventHandled(i)

BackoffStates == {"CONNECTED", "GOT_HANDSHAKE", "ESTABLISHED", "RECONNECT"}

\* C10 (as the code has it): a close or error event handled in CONNECTED,
\* GOT_HANDSHAKE, ESTABLISHED or RECONNECT leads to RECONNECT, opens no
\* connection and arms one timer; one handled in KEYED opens a connection at
\* once and arms no timer; one handled in ERROR or FAIL does neither; a
\* connection is opened only by a firing timer, except in START and KEYED;
\* and a firing timer opens exactly one connection.
C10BackoffWhereArmed ==
  [][ \A p \in Parties :
        LET opened == Len(socks') - Len(socks)
            armed == task'[p].timers - task[p].timers
        IN /\ ClosedOn(p) /\ mbx[p].state \in BackoffStates
                => mbx'[p].state = "RECONNECT" /\ opened = 0 /\ armed = 1
           /\ ClosedOn(p) /\ mbx[p].state = "KEYED" => opened >= 1 /\ armed = 0
           /\ ClosedOn(p) /\ mbx[p].state \in {"ERROR", "FAIL"} => opened = 0 /\ armed = 0
           /\ opened > 0 /\ mbx[p].state \notin {"none", "START", "KEYED"}
                => opened = 1 /\ armed = -1
           /\ armed < 0 => opened = 1 /\ armed = -1 ]_vars

\* C10 witness: a close was handled, the timer it armed has fired and the
\* connection it opened is the current one.
C10ReopenedAfterTimer ==
  /\ mbx["alice"].state = "RECONNECT"
  /\ mbx["alice"].ws # NoWs
  /\ task["alice"].timers = 0

\* C10 as stated: every handled close or error event, in any state, opens
\* no connection itself and arms the timer.
C10BackoffInEveryState ==
  [][ \A p \in Parties :
        ClosedOn(p) => /\ Len(socks') = Len(socks)
                       /\ task'[p].timers = task[p].timers + 1 ]_vars
(***************************************************************************)
(* Properties of the protocol machine (specification SpecApp).             *)
(***************************************************************************)
RevealedStates == {"I_REVEALED", "THEY_REVEALED", "BOTH_REVEALED"}

PendingSends(p, type) == { i \in 1..Len(task[p].enc) : task[p].enc[i].msg.type = type }

\* C2: a reveal is handed to mailbox.send, or a revealed state is entered,
\* only after BOTH_COMMITTED has been entered, with the own commitment
\* handed to mailbox.send and a commitment of the peer received.
C2NoRevealBeforeBothCommitted ==
  \A p \in Parties :
    \/ /\ obs[p].revealCalls = 0
       /\ PendingSends(p, "reveal") = {}
       /\ obs[p].entered \cap RevealedStates = {}
    \/ /\ "BOTH_COMMITTED" \in obs[p].entered
       /\ obs[p].commitCalls = 1
       /\ obs[p].crSeen >= 1

\* C2 witness: both revealed, after one reveal of its own.
C2BothRevealedReached ==
  /\ app["alice"].appState = "BOTH_REVEALED"
  /\ obs["alice"].revealCalls = 1

\* C3: once the peer connection is established, the peer's first commitment
\* is taken in whichever phase of the local commitment it arrives (before
\* the local commit, while the local commitment is being sent, or after it
\* was sent) without the machine going to FAIL.
C3PeerCommitmentAtAnyTime ==
  \A p \in Parties : \A i \in 1..Len(task[p].dec) :
    LET t == task[p].dec[i] IN
    /\ decryptOk(t.key, t.frame)
    /\ t.frame.pt.type = "commitment"
    /\ obs[p].crSeen = 0
    /\ app[p].appState \in {"CONNECTED", "SEND_COMMITMENT_FIRST", "I_COMMITTED"}
    => DecryptDoneFx(World, p, i).app[p].appState # "FAIL"

\* C4: the own commitment is handed to mailbox.send at most once, and in
\* BOTH_COMMITTED and the revealed states it has been handed over exactly
\* once, that send has completed, and exactly one commitment of the peer
\* has been handled.
C4OneCommitmentEachWay ==
  \A p \in Parties :
    /\ obs[p].commitCalls <= 1
    /\ Cardinality(PendingSends(p, "commitment")) <= obs[p].commitCalls
    /\ app[p].appState \in {"BOTH_COMMITTED"} \cup RevealedStates
         => /\ obs[p].commitCalls = 1
            /\ PendingSends(p, "commitment") = {}
            /\ obs[p].crSeen = 1

\* C4 witness: both committed, the own commitment sent second.
C4BothCommittedReached ==
  /\ app["alice"].appState = "BOTH_COMMITTED"
  /\ "SEND_COMMITMENT_SECOND" \in obs["alice"].entered

C5CommitmentBinding ==
  pure.c1 # None /\ <<pure.m1, pure.r1>> # <<pure.m2, pure.r2>> => pure.c1 # pure.c2

\* C7 (its safety part): in a run of two honest parties over an in-order
\* relay without disconnects, neither protocol machine is in FAIL and no
\* verification fails.
C7HonestRunNeverFails ==
  \A p \in Parties :
    /\ app[p].appState # "FAIL"
    /\ app[p].verdict # "fail"

(***************************************************************************)
(* Reset in ESTABLISHED (mailbox.ts, transitions and onmessage).           *)
(***************************************************************************)
ValidHandshake(p) ==
  HandshakeFrame(PkOf(Peer(p)), signPk(SharedSecret, PkOf(Peer(p))))

HandshakesWritten(tr) ==
  Cardinality({ k \in 1..Len(tr) : tr[k][1] = "ws.send" /\ tr[k][2].type = "handshake" })

Opened(tr) == \E k \in 1..Len(tr) : tr[k][1] = "new WebSocket"

\* The run the reset starts: the reset is handled, the handshake send it
\* started completes, the peer's valid handshake is handled, and the key
\* derivation that handshake started completes.
AfterReset(p) == onmessage(World, p, ResetFrame)
AfterResetHandshakeSent(p) == HandshakeSendDoneFx(AfterReset(p), p)
AfterResetHandshakeReceived(p) == onmessage(AfterResetHandshakeSent(p), p, ValidHandshake(p))
AfterResetImported(p) ==
  DeriveImportedFx(AfterResetHandshakeReceived(p), p,
                   Len(AfterResetHandshakeReceived(p).task[p].derive))
AfterResetDerived(p) ==
  DeriveDoneFx(AfterResetImported(p), p, Len(AfterResetImported(p).task[p].derive))

\* C11: a reset handled in ESTABLISHED on the open current connection moves
\* the Mailbox to CONNECTED with the same connection and starts one
\* handshake send; that send writes one handshake frame on that connection;
\* the peer's valid handshake then moves it to GOT_HANDSHAKE and, when the
\* derivation that handshake started completes, to ESTABLISHED; no
\* connection is opened on the way and the connection is still the same.
C11ResetRehandshakesOnSameConnection ==
  \A p \in Parties :
    (/\ mbx[p].state = "ESTABLISHED"
     /\ mbx[p].ws # NoWs
     /\ socks[mbx[p].ws].rs = "OPEN")
    => /\ AfterReset(p).mbx[p].state = "CONNECTED"
       /\ AfterReset(p).mbx[p].ws = mbx[p].ws
       /\ AfterReset(p).task[p].hs = task[p].hs + 1
       /\ AfterResetHandshakeSent(p).mbx[p].ws = mbx[p].ws
       /\ HandshakesWritten(AfterResetHandshakeSent(p).tr[p]) = 1
       /\ AfterResetHandshakeReceived(p).mbx[p].state = "GOT_HANDSHAKE"
       /\ AfterResetDerived(p).mbx[p].state = "ESTABLISHED"
       /\ AfterResetDerived(p).mbx[p].ws = mbx[p].ws
       /\ AfterResetDerived(p).socks = socks
       /\ ~Opened(AfterResetDerived(p).tr[p])

\* CONNECTED on the first connection with a session key from the earlier
\* establishment and the new handshake send in flight.
C11ResetHandledInEstablished ==
  /\ mbx["alice"].state = "CONNECTED"
  /\ mbx["alice"].sessionKey # NoSession
  /\ Len(socks) = 1
  /\ socks[1].rs = "OPEN"
  /\ task["alice"].hs > 0

(***************************************************************************)
(* close() (mailbox.ts): it detaches and closes the current socket if      *)
(* there is one; it changes no state and cancels neither the key           *)
(* generation nor a reconnect timer.                                       *)
(***************************************************************************)
\* C12 (as claimed): once close() has been called, the completion of the
\* key generation and the firing of a reconnect timer open no connection.
C12NoConnectionAfterClose ==
  \A p \in Parties :
    mbx[p].state # "none"
    => /\ task[p].keygen => ~Opened(KeyGeneratedFx(close(World, p), p).tr[p])
       /\ task[p].timers > 0 => ~Opened(TimerFiredFx(close(World, p), p).tr[p])

(***************************************************************************)
(* What one task of a party can do from the current state: the world each  *)
(* handler or continuation that can run now would leave, with the trace of *)
(* what it called.                                                         *)
(***************************************************************************)
\* The frames the environment of the run can deliver.
InboundFrames == IF net.mode = "peer" THEN PeerFrames ELSE AdversaryFrames

OwnSockets(p) == { i \in 1..Len(socks) : socks[i].owner = p }

MailboxTaskResults(p) ==
  (IF task[p].keygen THEN {KeyGeneratedFx(World, p)} ELSE {})
  \cup (IF task[p].hs > 0 THEN {HandshakeSendDoneFx(World, p)} ELSE {})
  \cup { DeriveImportedFx(World, p, i) :
           i \in { j \in 1..Len(task[p].derive) : task[p].derive[j].stage = "import" } }
  \cup { DeriveDoneFx(World, p, i) :
           i \in { j \in 1..Len(task[p].derive) : task[p].derive[j].stage = "verify" } }
  \cup { EncryptDoneFx(World, p, i) : i \in 1..Len(task[p].enc) }
  \cup { DecryptDoneFx(World, p, i) : i \in 1..Len(task[p].dec) }
  \cup (IF task[p].timers > 0 THEN {TimerFiredFx(World, p)} ELSE {})

SocketTaskResults(p) ==
  { WsOpenedFx(World, i) : i \in { j \in OwnSockets(p) : socks[j].rs = "CONNECTING" } }
  \cup { WsClosedFx(World, i) : i \in { j \in OwnSockets(p) : socks[j].rs \in {"OPEN", "CLOSING"} } }
  \cup { WsFailedFx(World, i) : i \in { j \in OwnSockets(p) : socks[j].rs \in {"CONNECTING", "OPEN"} } }
  \cup (IF \E i \in OwnSockets(p) : socks[i].rs = "OPEN"
          THEN { onmessage(World, p, f) : f \in InboundFrames }
          ELSE {})

PageTaskResults(p) ==
  (IF task[p].secret THEN {SharedSecretReadyFx(World, p)} ELSE {})
  \cup (IF task[p].mailboxId > 0 THEN {MailboxIdReadyFx(World, p)} ELSE {})
  \cup (IF task[p].commit # <<>> THEN {CommitmentCalculatedFx(World, p)} ELSE {})
  \cup (IF task[p].verify # <<>> THEN {VerifyDoneFx(World, p)} ELSE {})

TaskResults(p) == MailboxTaskResults(p) \cup SocketTaskResults(p) \cup PageTaskResults(p)

FramesWritten(tr) == { tr[k][2] : k \in { j \in 1..Len(tr) : tr[j][1] = "ws.send" } }

OwnHandshake(p) ==
  HandshakeFrame(generateDHKeyPair(p).publicKey,
                 signPk(SharedSecret, generateDHKeyPair(p).publicKey))

\* The payloads the page hands to send().
PagePayloads(p) ==
  { [type |-> "commitment", commitment |-> calculateCommitment(m, random16(p))] :
      m \in UserMessages }
  \cup { [type |-> "reveal", message |-> m, random |-> random16(p)] : m \in UserMessages }

\* C13: whatever task runs in whatever state, each frame it writes to the
\* connection is either the handshake made of the own public key and its
\* tag under the shared secret, or a cryptogram, the encryption of a payload
\* under a session key derived from a verified peer key; no payload, private
\* key or shared secret is written as a frame.
C13OnlyHandshakesAndCryptograms ==
  \A p \in Parties : \A W \in TaskResults(p) : \A f \in FramesWritten(W.tr[p]) :
    \/ f = OwnHandshake(p)
    \/ /\ f.type = "cryptogram"
       /\ DOMAIN f = {"type", "key", "pt"}
       /\ f.key \in VerifiedSessionKeys(p)
       /\ f.pt \in PagePayloads(p)

\* The encryption of the commitment is about to be written to the open
\* connection, and so is a handshake.
C13BothKindsOfFrameWritten ==
  /\ \E i \in 1..Len(task["alice"].enc) :
       /\ task["alice"].enc[i].msg.type = "commitment"
       /\ FramesWritten(EncryptDoneFx(World, "alice", i).tr["alice"]) # {}
  /\ task["alice"].hs > 0
  /\ FramesWritten(HandshakeSendDoneFx(World, "alice").tr["alice"]) # {}

(***************************************************************************)
(* onDisconnect (mailbox.ts, dispatch and leaveState).  In the trace of a  *)
(* task a transition is its console.debug line; what the transition calls  *)
(* follows it.                                                             *)
(***************************************************************************)
IsTransition(e) == e[1] = "Mailbox FSM"

\* C14: in every task, each transition out of ESTABLISHED (whatever the
\* event and the target) is followed at once, before anything the entry of
\* the next state does, by one call of onDisconnect, and onDisconnect is
\* called nowhere else.
C14DisconnectOnLeavingEstablished ==
  \A p \in Parties : \A W \in TaskResults(p) :
    LET tr == W.tr[p] IN
    \A k \in 1..Len(tr) :
      /\ (IsTransition(tr[k]) /\ tr[k][2] = "ESTABLISHED")
           => /\ k < Len(tr)
              /\ tr[k + 1] = <<"onDisconnect">>
      /\ tr[k] = <<"onDisconnect">>
           => /\ k > 1
              /\ IsTransition(tr[k - 1])
              /\ tr[k - 1][2] = "ESTABLISHED"

\* ESTABLISHED, where a close, a reset, a new handshake and an event without
\* a table entry can each be handled next.
C14EstablishedLeftFourWays ==
  /\ mbx["alice"].state = "ESTABLISHED"
  /\ \A to \in {"RECONNECT", "CONNECTED", "GOT_HANDSHAKE", "ERROR"} :
       \E W \in TaskResults("alice") :
         /\ W.mbx["alice"].state = to
         /\ Invoked(W.tr["alice"], "onDisconnect")

(***************************************************************************)
(* Inbound cryptograms (mailbox.ts, onmessage): the state is tested when   *)
(* the frame arrives; the continuation of decryptMessage tests nothing.    *)
(***************************************************************************)
Delivered(tr) == \E k \in 1..Len(tr) : tr[k][1] = "onMessage"

\* C15 (as claimed): a decryption that completes hands its payload to
\* onMessage only if the Mailbox is in ESTABLISHED at that moment.
C15DeliveredOnlyInEstablished ==
  \A p \in Parties : \A i \in 1..Len(task[p].dec) :
    Delivered(DecryptDoneFx(World, p, i).tr[p]) => mbx[p].state = "ESTABLISHED"

(***************************************************************************)
(* Events without a table entry (mailbox.ts, dispatch): State.ERROR and    *)
(* State.FAIL are two members of the enum.                                 *)
(***************************************************************************)
HasRow(from, event) == \E t \in transitions : t[1] = from /\ t[2] = event

DeadStates == {"ERROR", "FAIL"}

\* C16 (as the code has it): a transition on an event without a table entry
\* goes to ERROR; a transition goes to FAIL only by a row of the table (a
\* failed verification in GOT_HANDSHAKE, KeyGenerationFailed in START);
\* every transition from ERROR or FAIL goes to ERROR, so a task that starts
\* in one of the two ends in one of the two; and send() is rejected there.
C16UnmatchedEventEndsInError ==
  \A p \in Parties :
    /\ \A W \in TaskResults(p) :
         /\ \A k \in 1..Len(W.tr[p]) :
              LET e == W.tr[p][k] IN
              IsTransition(e)
              => /\ ~HasRow(e[2], e[3]) => e[4] = "ERROR"
                 /\ e[4] = "FAIL" => <<e[2], e[3], "FAIL">> \in transitions
                 /\ e[2] \in DeadStates => e[4] = "ERROR"
         /\ mbx[p].state \in DeadStates => W.mbx[p].state \in DeadStates
    /\ mbx[p].state \in DeadStates => ~sendGuard(mbx[p].state)

\* FAIL after a failed verification, with an event that can be handled next
\* and leads to ERROR.
C16FailLeftForError ==
  /\ mbx["alice"].state = "FAIL"
  /\ \E W \in TaskResults("alice") : W.mbx["alice"].state = "ERROR"

\* C16 (as claimed): an event without a table entry leads to the state a
\* failed verification leads to, and no transition leaves that state.
C16UnmatchedEventEndsInFailed ==
  \A p \in Parties : \A W \in TaskResults(p) : \A k \in 1..Len(W.tr[p]) :
    LET e == W.tr[p][k]
        Failed == MailboxNext("GOT_HANDSHAKE", "VerificationFailed")
    IN IsTransition(e)
       => /\ ~HasRow(e[2], e[3]) => e[4] = Failed
          /\ e[2] = Failed => e[4] = Failed

(***************************************************************************)
(* FAIL of the protocol machine (app.ts): entering it shows the error      *)
(* overlay; the Mailbox is not closed and a send() already started goes    *)
(* on.                                                                     *)
(***************************************************************************)
ProtocolFrames(tr) ==
  { f \in FramesWritten(tr) :
      f.type = "cryptogram" /\ f.pt.type \in {"commitment", "reveal"} }

\* C17 (as claimed): an event without a row leads to FAIL, every event
\* handled in FAIL leaves the machine in FAIL, and no task that runs while
\* the machine is in FAIL starts a send or writes a commitment or reveal to
\* the connection.
C17NothingSentInFail ==
  \A p \in Parties : \A W \in TaskResults(p) :
    /\ \A k \in 1..Len(W.tr[p]) :
         LET e == W.tr[p][k] IN
         (e[1] = "TwoPC FSM" /\ ~\E t \in appTransitions : t[1] = e[2] /\ t[2] = e[3])
         => e[4] = "FAIL"
    /\ app[p].appState = "FAIL"
       => /\ W.app[p].appState = "FAIL"
          /\ W.obs[p].commitCalls = obs[p].commitCalls
          /\ W.obs[p].revealCalls = obs[p].revealCalls
          /\ ProtocolFrames(W.tr[p]) = {}

(***************************************************************************)
(* The key pair in the handshake (mailbox.ts): dhKeyPair is assigned in    *)
(* the entry of START only, and START is entered by the constructor only.  *)
(***************************************************************************)
\* The handshake send in flight completes, a reset is handled, and the
\* handshake send the reset started completes.
HandshakeSentTwice(p) ==
  HandshakeSendDoneFx(onmessage(HandshakeSendDoneFx(World, p), p, ResetFrame), p)

HandshakeKeys(tr) ==
  [ k \in { j \in 1..Len(tr) : tr[j][1] = "ws.send" /\ tr[j][2].type = "handshake" }
      |-> tr[k][2].pk ]

\* C18 (as claimed): two handshakes sent one after the other, the second
\* after a reset, carry different public keys.
C18FreshKeyPairPerHandshake ==
  \A p \in Parties :
    (/\ mbx[p].state = "CONNECTED"
     /\ task[p].hs > 0
     /\ mbx[p].ws # NoWs
     /\ socks[mbx[p].ws].rs = "OPEN")
    => LET sent == HandshakeKeys(HandshakeSentTwice(p).tr[p])
       IN \A j, k \in DOMAIN sent : j # k => sent[j] # sent[k]

(***************************************************************************)
(* A failed key generation (mailbox.ts, enterState for START): the promise *)
(* chain has two .then() and no rejection handler.                         *)
(***************************************************************************)
\* C19 (as claimed): the Mailbox is in START only while the key generation
\* is pending; when it has failed the Mailbox has left START (for FAIL).
C19KeyGenerationFailureLeavesStart ==
  \A p \in Parties : mbx[p].state = "START" => task[p].keygen

(***************************************************************************)
(* encryptMessage and decryptMessage at the level of bytes (crypto.ts,     *)
(* utils.ts).  A JSON value is a tagged tuple; JSON.stringify writes it as *)
(* a string of characters and JSON.parse reads one back; TextEncoder and   *)
(* TextDecoder map characters to bytes and back; toHex and fromHex map     *)
(* bytes to pairs of hex digits and back.  X25519 is modelled by           *)
(* exponentiation in the group of units modulo a small prime, AES-GCM by a *)
(* keystream added to the plaintext and a tag over key, iv and plaintext.  *)
(***************************************************************************)
JNull == <<"null">>
JBool(b) == <<"bool", b>>
JNum(n) == <<"num", n>>
JStr(s) == <<"str", s>>
JArr(elements) == <<"arr", elements>>
JObj(members) == <<"obj", members>>

Quote == "\""
Backslash == "\\"

Ascii ==
  { <<Quote, 34>>, <<",", 44>>, <<"-", 45>>, <<"0", 48>>, <<"1", 49>>, <<"2", 50>>,
    <<"3", 51>>, <<"4", 52>>, <<"5", 53>>, <<"6", 54>>, <<"7", 55>>, <<"8", 56>>,
    <<"9", 57>>, <<":", 58>>, <<"[", 91>>, <<Backslash, 92>>, <<"]", 93>>, <<"a", 97>>,
    <<"e", 101>>, <<"f", 102>>, <<"l", 108>>, <<"m", 109>>, <<"n", 110>>, <<"r", 114>>,
    <<"s", 115>>, <<"t", 116>>, <<"u", 117>>, <<"{", 123>>, <<"}", 125>> }

Replacement == "?"

\* ENCODER.encode(string) and DECODER.decode(bytes)
encode(str) == [k \in 1..Len(str) |-> (CHOOSE e \in Ascii : e[1] = str[k])[2]]

decode(bytes) ==
  [k \in 1..Len(bytes) |->
     IF \E e \in Ascii : e[2] = bytes[k]
       THEN (CHOOSE e \in Ascii : e[2] = bytes[k])[1]
       ELSE Replacement]

Digits == <<"0", "1", "2", "3", "4", "5", "6", "7", "8", "9">>

HexDigits == Digits \o <<"a", "b", "c", "d", "e", "f">>

RECURSIVE flatten(_)
flatten(seqs) == IF seqs = <<>> THEN <<>> ELSE Head(seqs) \o flatten(Tail(seqs))

\* A faulty variant: no padStart(2, "0").
toHexUnpadded(bytes) ==
  flatten([k \in 1..Len(bytes) |->
             IF bytes[k] < 16 THEN <<HexDigits[bytes[k] + 1]>>
             ELSE <<HexDigits[(bytes[k] \div 16) + 1], HexDigits[(bytes[k] % 16) + 1]>>])

\* b.toString(16).padStart(2, "0"), joined
toHex(bytes) ==
  flatten([k \in 1..Len(bytes) |->
             <<HexDigits[(bytes[k] \div 16) + 1], HexDigits[(bytes[k] % 16) + 1]>>])

IsHexDigit(c) == \E d \in 1..Len(HexDigits) : HexDigits[d] = c

HexValue(c) == (CHOOSE d \in 1..Len(HexDigits) : HexDigits[d] = c) - 1

\* parseInt(two characters, 16), stored into a Uint8Array: the digits up to
\* the first character that is none; NaN is stored as 0.
parseInt16(pair) ==
  IF pair = <<>> \/ ~IsHexDigit(pair[1]) THEN 0
  ELSE IF Len(pair) = 1 \/ ~IsHexDigit(pair[2]) THEN HexValue(pair[1])
  ELSE HexValue(pair[1]) * 16 + HexValue(pair[2])

\* new Uint8Array(hex.length / 2), filled from the pairs of characters
fromHex(hex) ==
  [k \in 1..(Len(hex) \div 2) |-> parseInt16(SubSeq(hex, 2 * k - 1, 2 * k))]

\* JSON.stringify: no white space; in a string the quote and the backslash
\* are written with a backslash before them.
escape(str) ==
  flatten([k \in 1..Len(str) |->
             IF str[k] \in {Quote, Backslash} THEN <<Backslash, str[k]>> ELSE <<str[k]>>])

RECURSIVE decimal(_)
decimal(n) ==
  IF n < 0 THEN <<"-">> \o decimal(-n)
  ELSE IF n < 10 THEN <<Digits[n + 1]>>
  ELSE decimal(n \div 10) \o <<Digits[(n % 10) + 1]>>

quoted(str) == <<Quote>> \o escape(str) \o <<Quote>>

RECURSIVE commaJoin(_)
commaJoin(parts) ==
  IF parts = <<>> THEN <<>>
  ELSE IF Len(parts) = 1 THEN parts[1]
  ELSE parts[1] \o <<",">> \o commaJoin(Tail(parts))

RECURSIVE stringify(_)
stringify(v) ==
  CASE v[1] = "null" -> <<"n", "u", "l", "l">>
    [] v[1] = "bool" -> IF v[2] THEN <<"t", "r", "u", "e">> ELSE <<"f", "a", "l", "s", "e">>
    [] v[1] = "num" -> decimal(v[2])
    [] v[1] = "str" -> quoted(v[2])
    [] v[1] = "arr" ->
         <<"[">> \o commaJoin([k \in 1..Len(v[2]) |-> stringify(v[2][k])]) \o <<"]">>
    [] v[1] = "obj" ->
         <<"{">>
         \o commaJoin([k \in 1..Len(v[2]) |->
                         quoted(v[2][k][1]) \o <<":">> \o stringify(v[2][k][2])])
         \o <<"}">>

\* JSON.parse, by recursive descent over the text: each parser takes the
\* text and a position and returns the value and the position after it, or
\* a failure (SyntaxError).
Failure == [ok |-> FALSE, v |-> JNull, next |-> 0]

Parsed(v, next) == [ok |-> TRUE, v |-> v, next |-> next]

At(s, i) == IF i <= Len(s) THEN s[i] ELSE ""

StartsWith(s, i, word) ==
  /\ i + Len(word) - 1 <= Len(s)
  /\ SubSeq(s, i, i + Len(word) - 1) = word

IsDigit(c) == \E d \in 1..Len(Digits) : Digits[d] = c

DigitValue(c) == (CHOOSE d \in 1..Len(Digits) : Digits[d] = c) - 1

\* The digits from position i on: the number read so far and the position
\* after the last digit.
RECURSIVE parseDigits(_, _, _)
parseDigits(s, i, acc) ==
  IF IsDigit(At(s, i)) THEN parseDigits(s, i + 1, acc * 10 + DigitValue(s[i]))
  ELSE Parsed(acc, i)

parseNumber(s, i) ==
  IF At(s, i) = "-"
    THEN IF IsDigit(At(s, i + 1))
           THEN Parsed(JNum(-parseDigits(s, i + 1, 0).v), parseDigits(s, i + 1, 0).next)
           ELSE Failure
    ELSE Parsed(JNum(parseDigits(s, i, 0).v), parseDigits(s, i, 0).next)

\* The characters of a string from position i on, up to the closing quote.
RECURSIVE parseChars(_, _, _)
parseChars(s, i, acc) ==
  CASE i > Len(s) -> Failure
    [] i <= Len(s) /\ s[i] = Quote -> Parsed(acc, i + 1)
    [] i <= Len(s) /\ s[i] = Backslash ->
         IF At(s, i + 1) \in {Quote, Backslash}
           THEN parseChars(s, i + 2, Append(acc, s[i + 1]))
           ELSE Failure
    [] OTHER -> parseChars(s, i + 1, Append(acc, s[i]))

parseString(s, i) ==
  IF At(s, i) = Quote THEN parseChars(s, i + 1, <<>>) ELSE Failure

RECURSIVE parseValue(_, _)
RECURSIVE parseElements(_, _, _)
RECURSIVE parseMembers(_, _, _)

\* After an element of an array: "," and the next element, or "]".
parseElements(s, i, acc) ==
  LET r == parseValue(s, i) IN
  IF ~r.ok THEN Failure
  ELSE IF At(s, r.next) = "," THEN parseElements(s, r.next + 1, Append(acc, r.v))
  ELSE IF At(s, r.next) = "]" THEN Parsed(JArr(Append(acc, r.v)), r.next + 1)
  ELSE Failure

\* A member of an object: a quoted key, ":", a value, then "," or "}".
parseMembers(s, i, acc) ==
  LET k == parseString(s, i) IN
  IF ~k.ok \/ At(s, k.next) # ":" THEN Failure
  ELSE LET r == parseValue(s, k.next + 1) IN
       IF ~r.ok THEN Failure
       ELSE IF At(s, r.next) = ","
              THEN parseMembers(s, r.next + 1, Append(acc, <<k.v, r.v>>))
       ELSE IF At(s, r.next) = "}"
              THEN Parsed(JObj(Append(acc, <<k.v, r.v>>)), r.next + 1)
       ELSE Failure

parseValue(s, i) ==
  CASE StartsWith(s, i, <<"n", "u", "l", "l">>) -> Parsed(JNull, i + 4)
    [] StartsWith(s, i, <<"t", "r", "u", "e">>) -> Parsed(JBool(TRUE), i + 4)
    [] StartsWith(s, i, <<"f", "a", "l", "s", "e">>) -> Parsed(JBool(FALSE), i + 5)
    [] At(s, i) = "-" \/ IsDigit(At(s, i)) -> parseNumber(s, i)
    [] At(s, i) = Quote ->
         LET r == parseString(s, i) IN IF r.ok THEN Parsed(JStr(r.v), r.next) ELSE Failure
    [] At(s, i) = "[" ->
         IF At(s, i + 1) = "]" THEN Parsed(JArr(<<>>), i + 2) ELSE parseElements(s, i + 1, <<>>)
    [] At(s, i) = "{" ->
         IF At(s, i + 1) = "}" THEN Parsed(JObj(<<>>), i + 2) ELSE parseMembers(s, i + 1, <<>>)
    [] OTHER -> Failure

\* JSON.parse(text): one value and nothing after it.
parse(text) ==
  LET r == parseValue(text, 1) IN
  IF r.ok /\ r.next = Len(text) + 1 THEN [ok |-> TRUE, v |-> r.v] ELSE [ok |-> FALSE, v |-> JNull]

\* X25519: the public key of a private scalar and the shared value of a
\* public key and a private scalar, in the units modulo GroupPrime.
GroupPrime == 23
GroupBase == 5

RECURSIVE Power(_, _)
Power(base, exponent) ==
  IF exponent = 0 THEN 1 ELSE (base * Power(base, exponent - 1)) % GroupPrime

publicKeyOf(sk) == Power(GroupBase, sk)

\* crypto.subtle.deriveKey({ name: "X25519", public: pk }, sk, AES-GCM, ...)
deriveSharedKeyBits(pk, sk) == Power(pk, sk)

RECURSIVE Sum(_)
Sum(bytes) == IF bytes = <<>> THEN 0 ELSE Head(bytes) + Sum(Tail(bytes))

\* AES-GCM: the ciphertext is the plaintext plus a keystream of key, iv and
\* position, followed by a tag over key, iv and plaintext.
keystream(key, iv, k) == (key * 29 + Sum(iv) * 31 + k * 7) % 256

tag(key, iv, pt) == <<(key * 3 + Sum(iv)) % 256, (key * Len(pt) + Sum(pt)) % 256>>

aesGcmEncrypt(key, iv, pt) ==
  [k \in 1..Len(pt) |-> (pt[k] + keystream(key, iv, k)) % 256] \o tag(key, iv, pt)

\* The plaintext, or a failure (OperationError) when the tag does not match.
aesGcmDecrypt(key, iv, data) ==
  LET n == Len(data) - Len(tag(key, iv, <<>>))
      pt == [k \in 1..n |-> (data[k] + 256 - keystream(key, iv, k)) % 256]
  IN IF n >= 0 /\ SubSeq(data, n + 1, Len(data)) = tag(key, iv, pt)
       THEN [ok |-> TRUE, pt |-> pt]
       ELSE [ok |-> FALSE, pt |-> <<>>]

\* encryptMessage with the iv that crypto.getRandomValues returned
encryptMessageBytes(key, iv, msg) ==
  [type |-> "cryptogram",
   iv |-> toHex(iv),
   ct |-> toHex(aesGcmEncrypt(key, iv, encode(stringify(msg))))]

\* decryptMessage: the parsed value, or a rejection
decryptMessage(key, msg) ==
  LET r == aesGcmDecrypt(key, fromHex(msg.iv), fromHex(msg.ct))
  IN IF r.ok THEN parse(decode(r.pt)) ELSE [ok |-> FALSE, v |-> JNull]

\* Messages: objects and arrays over null, booleans, numbers of one and two
\* digits and a negative one, and strings that contain the two characters
\* JSON escapes.
JsonChars == {"a", Quote, Backslash}

JsonStrings == UNION { [1..k -> JsonChars] : k \in 0..MaxStr }

JsonScalars ==
  {JNull, JBool(TRUE), JBool(FALSE)}
  \cup { JNum(n) : n \in {0, 7, 12, -3} }
  \cup { JStr(s) : s \in JsonStrings }

Messages ==
  {JObj(<<>>), JArr(<<>>)}
  \cup { JObj(<< <<(<<"m">>), v>> >>) : v \in JsonScalars }
  \cup { JArr(<<v>>) : v \in JsonScalars }
  \cup { JObj(<< <<(<<"t">>), JStr(<<"a">>)>>, <<(<<"m">>), JArr(<<v, JNull>>)>> >>) :
           v \in JsonScalars }

MaxScalar == 3

PrivateKeys == 1..MaxScalar

IVs == {<<0, 255>>, <<16, 1>>, <<9, 160>>}

\* A encrypts msg for B under deriveSharedKey(pkB, skA); B decrypts under
\* deriveSharedKey(pkA, skB).
InitCrypto ==
  /\ mbx = World0("none", FALSE).mbx
  /\ task = World0("none", FALSE).task
  /\ app = World0("none", FALSE).app
  /\ socks = <<>>
  /\ net = World0("none", FALSE).net
  /\ obs = World0("none", FALSE).obs
  /\ pure \in [msg : Messages, skA : PrivateKeys, skB : PrivateKeys, iv : IVs,
               frame : {None}, out : {None}]

Encrypt ==
  /\ pure.frame = None
  /\ pure' = [pure EXCEPT !.frame =
                Some(encryptMessageBytes(deriveSharedKeyBits(publicKeyOf(pure.skB), pure.skA),
                                         pure.iv, pure.msg))]
  /\ UNCHANGED <<mbx, task, app, socks, net, obs>>

Decrypt ==
  /\ pure.frame # None
  /\ pure.out = None
  /\ pure' = [pure EXCEPT !.out =
                Some(decryptMessage(deriveSharedKeyBits(publicKeyOf(pure.skA), pure.skB),
                                    pure.frame[1]))]
  /\ UNCHANGED <<mbx, task, app, socks, net, obs>>

NextCrypto == Encrypt \/ Decrypt

SpecCrypto == InitCrypto /\ [][NextCrypto]_vars

\* C20: what decryptMessage returns under deriveSharedKey(pkA, skB) for the
\* cryptogram encryptMessage made of msg under deriveSharedKey(pkB, skA) is
\* a value equal to msg, and not a rejection.
C20DecryptReturnsTheMessage ==
  pure.out # None => pure.out[1] = [ok |-> TRUE, v |-> pure.msg]

\* Two different key pairs, an iv with a byte below 16, and a message with
\* a string that holds a quote and a backslash, decrypted.
C20EscapedMessageDecrypted ==
  /\ pure.out # None
  /\ pure.skA # pure.skB
  /\ pure.iv[1] < 16
  /\ pure.msg = JObj(<< <<(<<"m">>), JStr(<<Quote, Backslash>>)>> >>)

(***************************************************************************)
(* Superseded sockets (mailbox.ts): openWebSocket() closes the socket it   *)
(* replaces and leaves its handlers set; enterState() for RECONNECT and    *)
(* close() clear onopen, onclose and onerror, never onmessage.             *)
(***************************************************************************)
\* The sockets of p that this.ws does not refer to.
StaleSockets(p) == { i \in OwnSockets(p) : i # mbx[p].ws }

\* C21 (as claimed): the open, close and error events of a socket that is
\* not the current one cause no dispatch and no callback.
C21OnlyCurrentHandleDispatches ==
  \A p \in Parties : \A i \in StaleSockets(p) :
    /\ socks[i].rs = "CONNECTING" => WsOpenedFx(World, i).tr[p] = <<>>
    /\ socks[i].rs \in {"OPEN", "CLOSING"} => WsClosedFx(World, i).tr[p] = <<>>
    /\ socks[i].rs \in {"CONNECTING", "OPEN"} => WsFailedFx(World, i).tr[p] = <<>>

(***************************************************************************)
(* A handshake in GOT_HANDSHAKE (mailbox.ts, transitions): the table has   *)
(* no row for HandshakeRecieved there.                                     *)
(***************************************************************************)
\* C22 (as claimed): a valid handshake handled in GOT_HANDSHAKE while a
\* derivation is in flight does not fail the Mailbox: it starts a new
\* derivation and the state is still GOT_HANDSHAKE.
C22LaterHandshakeSupersedes ==
  \A p \in Parties :
    (/\ mbx[p].state = "GOT_HANDSHAKE"
     /\ task[p].derive # <<>>
     /\ \E i \in OwnSockets(p) : socks[i].rs = "OPEN")
    => LET W == onmessage(World, p, ValidHandshake(p))
       IN /\ W.mbx[p].state = "GOT_HANDSHAKE"
          /\ Len(W.task[p].derive) = Len(task[p].derive) + 1

(***************************************************************************)
(* Completions in RECONNECT (mailbox.ts): deriveSessionKey dispatches its  *)
(* result in whatever state the Mailbox is in by then.                     *)
(***************************************************************************)
\* C23 (as claimed): a close handled in CONNECTED, GOT_HANDSHAKE or
\* ESTABLISHED leads to RECONNECT, and while the Mailbox waits in RECONNECT
\* no completion of a handshake send, key derivation, encryption or
\* decryption in flight, nor the timer, moves it to another state.
C23ReconnectSurvivesCompletions ==
  \A p \in Parties :
    /\ mbx[p].state \in {"CONNECTED", "GOT_HANDSHAKE", "ESTABLISHED"}
       => \A i \in OwnSockets(p) :
            (socks[i].attached /\ socks[i].rs \in {"OPEN", "CLOSING"})
            => WsClosedFx(World, i).mbx[p].state = "RECONNECT"
    /\ mbx[p].state = "RECONNECT"
       => \A W \in MailboxTaskResults(p) : W.mbx[p].state = "RECONNECT"

(***************************************************************************)
(* A rejected send (app.ts): the onEnter actions chain .then() on          *)
(* mailbox.send(...) and neither await it nor handle its rejection; the    *)
(* .catch() of onEnter is on the action's own promise.                     *)
(***************************************************************************)
SendRejected(tr) ==
  \E k \in 1..Len(tr) : tr[k] \in {<<"reject", "Not established">>, <<"send", "rejected">>}

\* C24 (as claimed): a task in which mailbox.send rejects leaves the
\* protocol machine in FAIL.
C24RejectedSendLeadsToFail ==
  \A p \in Parties : \A W \in TaskResults(p) :
    SendRejected(W.tr[p]) => W.app[p].appState = "FAIL"

(***************************************************************************)
(* The handshake send (mailbox.ts, sendHanshake): started on every entry   *)
(* of CONNECTED; after the awaited export and signature it writes to       *)
(* this.ws as it is then.                                                  *)
(***************************************************************************)
EntriesOf(tr, state) ==
  Cardinality({ k \in 1..Len(tr) : IsTransition(tr[k]) /\ tr[k][4] = state })

CurrentIsOpen(p) == mbx[p].ws # NoWs /\ socks[mbx[p].ws].rs = "OPEN"

\* enum Event
MailboxEvents ==
  {"KeyGenerated", "KeyGenerationFailed", "WsOpen", "WsClose", "HandshakeRecieved",
   "SessionEstablished", "VerificationFailed", "WsReset"}

\* C25 (as the code has it): whatever event is dispatched in whatever
\* state, every entry of CONNECTED starts exactly one handshake send and
\* writes nothing itself; a handshake send that completes
\* writes exactly one frame, the own public key with its tag under the
\* shared secret, if the socket that is current at completion is open, and
\* no frame otherwise.
C25HandshakeWrittenIfCurrentOpen ==
  [](\A p \in Parties :
       /\ mbx[p].state # "none"
          => \A e \in MailboxEvents :
               LET W == dispatch(World, p, e) IN
               /\ W.task[p].hs = task[p].hs + EntriesOf(W.tr[p], "CONNECTED")
               /\ HandshakesWritten(W.tr[p]) = 0
       /\ task[p].hs > 0
          => LET W == HandshakeSendDoneFx(World, p) IN
             /\ W.task[p].hs = task[p].hs - 1
             /\ FramesWritten(W.tr[p]) = IF CurrentIsOpen(p) THEN {OwnHandshake(p)} ELSE {}
             /\ HandshakesWritten(W.tr[p]) = IF CurrentIsOpen(p) THEN 1 ELSE 0)

\* A handshake send in flight after the connection it was started on has
\* closed and the Mailbox has dropped it.
C25SendOutlivesConnection ==
  /\ mbx["alice"].state = "RECONNECT"
  /\ mbx["alice"].ws = NoWs
  /\ task["alice"].hs > 0
  /\ HandshakesWritten(HandshakeSendDoneFx(World, "alice").tr["alice"]) = 0

\* C25 (as claimed): every handshake send started by an entry of CONNECTED
\* writes exactly one handshake frame when it completes.
C25OneHandshakePerEntry ==
  \A p \in Parties :
    task[p].hs > 0 => HandshakesWritten(HandshakeSendDoneFx(World, p).tr[p]) = 1

(***************************************************************************)
(* The two reveals (app.ts, transitions).                                  *)
(***************************************************************************)
\* enum Event (app.ts)
AppEvents ==
  {"SharedSecretSet", "PeerConnectionEstablished", "Committed", "CommitmentSent",
   "CommitmentRecieved", "RevealSent", "RevealRecieved", "Ooops"}

\* C26: from BOTH_COMMITTED the two orders of RevealSent and RevealRecieved
\* both end in BOTH_REVEALED; whatever event is dispatched in whatever
\* state, a transition into BOTH_REVEALED is the second of the two events,
\* taken in I_REVEALED or THEY_REVEALED, and those two states are entered
\* from BOTH_COMMITTED only, on the first of the two events; and when the
\* machine is in BOTH_REVEALED it has been in BOTH_COMMITTED, the own reveal
\* was handed to send() once and a reveal of the peer was received.
C26BothRevealsBeforeBothRevealed ==
  [](/\ AppNext(AppNext("BOTH_COMMITTED", "RevealSent"), "RevealRecieved") = "BOTH_REVEALED"
     /\ AppNext(AppNext("BOTH_COMMITTED", "RevealRecieved"), "RevealSent") = "BOTH_REVEALED"
     /\ \A p \in Parties :
          /\ \A e \in AppEvents :
               LET t == <<app[p].appState, e, AppNext(app[p].appState, e)>> IN
               /\ t[3] = "BOTH_REVEALED"
                    => t \in { <<"I_REVEALED", "RevealRecieved", "BOTH_REVEALED">>,
                               <<"THEY_REVEALED", "RevealSent", "BOTH_REVEALED">> }
               /\ t[3] = "I_REVEALED" => t = <<"BOTH_COMMITTED", "RevealSent", "I_REVEALED">>
               /\ t[3] = "THEY_REVEALED"
                    => t = <<"BOTH_COMMITTED", "RevealRecieved", "THEY_REVEALED">>
          /\ app[p].appState = "BOTH_REVEALED"
               => /\ "BOTH_COMMITTED" \in obs[p].entered
                  /\ obs[p].entered \cap {"I_REVEALED", "THEY_REVEALED"} # {}
                  /\ obs[p].revealCalls = 1
                  /\ obs[p].gotReveal # None)

\* I_REVEALED or THEY_REVEALED, with the other of the two events handled
\* next and leading to BOTH_REVEALED.
C26RevealedInEitherOrder ==
  /\ app["alice"].appState \in {"I_REVEALED", "THEY_REVEALED"}
  /\ \E W \in TaskResults("alice") : W.app["alice"].appState = "BOTH_REVEALED"

(***************************************************************************)
(* The reveal of an honest party (app.ts, onEnter(START), the commit       *)
(* button, onEnter(BOTH_COMMITTED), onEnter(BOTH_REVEALED)).               *)
(***************************************************************************)
\* The payloads party p has handed to send() and that are being encrypted,
\* and those of its cryptograms the relay holds for the peer.
OutboundPayloads(p) ==
  { task[p].enc[k].msg : k \in 1..Len(task[p].enc) }
  \cup { net.q[Peer(p)][k].pt :
           k \in { j \in 1..Len(net.q[Peer(p)]) : net.q[Peer(p)][j].type = "cryptogram" } }

\* C27: between two honest parties, the random in the store is the one
\* generated at START and never another; the commitment in the store is the
\* commitment to the message and the random in the store, and so is the one
\* being computed after the click; every commitment sent is the one in the
\* store and every reveal sent carries the message and the random in the
\* store, which hash to that commitment; and every verification of a
\* received reveal passes.
C27RevealMatchesCommitment ==
  \A p \in Parties :
    /\ app[p].myRandom \in {None, Some(random16(p))}
    /\ \A k \in 1..Len(task[p].commit) :
         /\ app[p].myRandom # None
         /\ task[p].commit[k].myCommitment
              = calculateCommitment(task[p].commit[k].myMessage, app[p].myRandom[1])
    /\ app[p].myCommitment # None
         => /\ app[p].myMessage # None /\ app[p].myRandom # None
            /\ app[p].myCommitment[1]
                 = calculateCommitment(app[p].myMessage[1], app[p].myRandom[1])
    /\ \A m \in OutboundPayloads(p) :
         /\ m.type = "commitment"
              => app[p].myCommitment = Some(m.commitment)
         /\ m.type = "reveal"
              => /\ app[p].myMessage = Some(m.message)
                 /\ app[p].myRandom = Some(m.random)
                 /\ app[p].myCommitment = Some(calculateCommitment(m.message, m.random))
    /\ app[p].verdict # "fail"
    /\ task[p].verify # <<>>
         => /\ VerifyDoneFx(World, p).app[p].verdict = "pass"
            /\ Head(task[p].verify).theirCommitment = app[Peer(p)].myCommitment[1]
            /\ Head(task[p].verify).theirMessage = app[Peer(p)].myMessage[1]
            /\ Head(task[p].verify).theirRandom = app[Peer(p)].myRandom[1]

\* Bob is verifying the reveal of alice, whose own reveal is on its way too.
C27RevealBeingVerified ==
  /\ task["bob"].verify # <<>>
  /\ Head(task["bob"].verify).theirRandom = random16("alice")
  /\ app["alice"].verdict = "pass"

(***************************************************************************)
(* What the page is told about a send (mailbox.ts, send; app.ts, the       *)
(* .then() of the two sends).                                              *)
(***************************************************************************)
AppEventsIn(tr) == { tr[k][3] : k \in { j \in 1..Len(tr) : tr[j][1] = "TwoPC FSM" } }

\* C28: when the continuation of a send of the page runs and CommitmentSent
\* or RevealSent is dispatched, the Mailbox is ESTABLISHED with the session
\* key the message was encrypted with, and the cryptogram was written to the
\* connection.
C28SentOnlyWhileEstablished ==
  \A p \in Parties : \A i \in 1..Len(task[p].enc) :
    LET t == task[p].enc[i]
        W == EncryptDoneFx(World, p, i)
    IN (t.k # "none" /\ t.k \in AppEventsIn(W.tr[p]))
         => /\ mbx[p].state = "ESTABLISHED"
            /\ mbx[p].sessionKey = t.key
            /\ encryptMessage(t.key, t.msg) \in FramesWritten(W.tr[p])

(***************************************************************************)
(* The session key and the handshake it came from (mailbox.ts, onmessage   *)
(* and deriveSessionKey).                                                  *)
(***************************************************************************)
\* C29 (as claimed): in ESTABLISHED the session key is the one derived from
\* the key of the handshake received last, whose own signature verifies;
\* and the completion of a derivation started for another handshake than
\* the one received last neither changes the session key nor makes the
\* Mailbox ESTABLISHED.
C29KeyOfLatestHandshake ==
  \A p \in Parties :
    /\ mbx[p].state = "ESTABLISHED"
         => /\ mbx[p].sessionKey
                 = deriveSharedKey(mbx[p].peerKey, mbx[p].dhKeyPair[1].privateKey)
            /\ verifyPk(SharedSecret, mbx[p].peerSig, mbx[p].peerKey)
    /\ \A i \in 1..Len(task[p].derive) :
         LET t == task[p].derive[i]
             W == DeriveDoneFx(World, p, i)
         IN (t.stage = "verify" /\ (t.pk # mbx[p].peerKey \/ t.hsSig # mbx[p].peerSig))
              => /\ W.mbx[p].sessionKey = mbx[p].sessionKey
                 /\ ~(mbx[p].state # "ESTABLISHED" /\ W.mbx[p].state = "ESTABLISHED")

(***************************************************************************)
(* onConnect and onDisconnect over a run (mailbox.ts, enterState and       *)
(* leaveState).                                                            *)
(***************************************************************************)
IsCallback(e) == e[1] \in {"onConnect", "onDisconnect"}

Callbacks(tr) == SelectSeq(tr, IsCallback)

\* C30: the constructor leaves a Mailbox in START without calling
\* onConnect or onDisconnect, and whatever event is
\* dispatched in whatever state, the calls of onConnect and onDisconnect it
\* makes alternate, begin with onDisconnect exactly when it is dispatched in
\* ESTABLISHED and end with onConnect exactly when it ends in ESTABLISHED
\* (a dispatch without such a call leaves the state in or out of
\* ESTABLISHED as it was).  So over a run the calls alternate
\* from onConnect on, and there is one more onConnect than onDisconnect in
\* ESTABLISHED and as many of each in every other state.
C30CallbacksAlternate ==
  [](\A p \in Parties :
       /\ LET W == newMailbox(World, p)
          IN W.mbx[p].state = "START" /\ Callbacks(W.tr[p]) = <<>>
       /\ mbx[p].state # "none"
          => \A e \in MailboxEvents :
               LET W == dispatch(World, p, e)
                   c == Callbacks(W.tr[p])
                   was == mbx[p].state = "ESTABLISHED"
                   is == W.mbx[p].state = "ESTABLISHED"
               IN /\ \A k \in 1..(Len(c) - 1) : c[k] # c[k + 1]
                  /\ c = <<>> => (was <=> is)
                  /\ c # <<>> => /\ (c[1] = <<"onDisconnect">>) <=> was
                                 /\ (c[Len(c)] = <<"onConnect">>) <=> is)

\* A Mailbox that holds the session key of an earlier derivation and is
\* waiting for a derivation again, whose completion enters ESTABLISHED and
\* calls onConnect.
C30EstablishedAgain ==
  /\ mbx["alice"].state = "GOT_HANDSHAKE"
  /\ mbx["alice"].sessionKey # NoSession
  /\ \E W \in TaskResults("alice") :
       /\ W.mbx["alice"].state = "ESTABLISHED"
       /\ Callbacks(W.tr["alice"]) = <<<<"onConnect">>>>

(***************************************************************************)
(* Reconnections under the page (app.ts, onEnter(SHARED_SECRET)): the      *)
(* first onConnect replaces itself and onDisconnect with handlers that     *)
(* show and hide the reconnect overlay.                                    *)
(***************************************************************************)
\* The protocol state and the values the protocol stores.
ProtocolStore(a) ==
  <<a.appState, a.myCommitment, a.myMessage, a.myRandom,
    a.theirCommitment, a.theirMessage, a.theirRandom>>

\* C31: PeerConnectionEstablished is dispatched by the first onConnect only,
\* which installs the overlay handlers; once they are installed they stay,
\* and whatever Mailbox event is dispatched in whatever state (a close, a
\* reset, a new handshake, a completed derivation), with the calls of
\* onDisconnect and onConnect it makes, dispatches no event to the protocol
\* machine and leaves the protocol state and the stored commitments,
\* messages and randoms as they were.
C31ReconnectsLeaveProtocolAlone ==
  [](\A p \in Parties :
       mbx[p].state # "none"
       => \A e \in MailboxEvents :
            LET W == dispatch(World, p, e) IN
            /\ "PeerConnectionEstablished" \in AppEventsIn(W.tr[p])
                 => /\ mbx[p].onConnect = "first"
                    /\ W.mbx[p].onConnect = "overlay"
                    /\ W.mbx[p].onDisconnect = "overlay"
            /\ mbx[p].onConnect = "overlay"
                 => /\ W.mbx[p].onConnect = "overlay"
                    /\ W.mbx[p].onDisconnect = "overlay"
                    /\ AppEventsIn(W.tr[p]) = {}
                    /\ ProtocolStore(W.app[p]) = ProtocolStore(app[p]))

\* The own commitment sent, the overlay handlers installed, the connection
\* lost after a reset and a derivation in flight whose completion calls
\* onConnect again.
C31ReestablishedAfterCommitment ==
  /\ app["alice"].appState = "I_COMMITTED"
  /\ mbx["alice"].onConnect = "overlay"
  /\ app["alice"].reconnectOverlay
  /\ mbx["alice"].state = "GOT_HANDSHAKE"
  /\ \E i \in 1..Len(task["alice"].derive) :
       /\ task["alice"].derive[i].stage = "verify"
       /\ Callbacks(DeriveDoneFx(World, "alice", i).tr["alice"]) = <<<<"onConnect">>>>
       /\ ~DeriveDoneFx(World, "alice", i).app["alice"].reconnectOverlay

(***************************************************************************)
(* The graph of the protocol machine (app.ts, transitions and dispatch).   *)
(***************************************************************************)
\* enum AppState
AppStates ==
  {"BOTH_COMMITTED", "BOTH_REVEALED", "CAN_SEND_COMMITMENT", "COMMITMENT_SENT",
   "CONNECTED", "FAIL", "I_COMMITTED", "I_REVEALED", "SEND_COMMITMENT_FIRST",
   "SEND_COMMITMENT_SECOND", "SHARED_SECRET", "START", "THEY_COMMITTED",
   "THEY_REVEALED"}

\* The steps dispatch can take between states other than FAIL.
AppEdges ==
  { <<s, AppNext(s, e)>> : s \in AppStates \ {"FAIL"}, e \in AppEvents }
    \ { <<s, "FAIL">> : s \in AppStates }

\* The pairs joined by a path of at most 2^n edges of R.
RECURSIVE Paths(_, _)
Paths(R, n) ==
  IF n = 0 THEN R
  ELSE LET P == Paths(R, n - 1)
       IN P \cup UNION { { <<a[1], b[2]>> : b \in { c \in P : c[1] = a[2] } } : a \in P }

\* Four doublings cover every path without a repeated state (14 states).
AppPaths == Paths(AppEdges, 4)

\* C32: no path of transitions leads from a state other than FAIL back to
\* it, and every transition from FAIL leads to FAIL; in a run of the page,
\* the states entered before the current one lead to it, and whatever
\* event is dispatched in whatever state, the state entered is FAIL or one
\* that was not entered before, so the states other than FAIL are entered
\* at most once each and a run changes state at most once per state.
C32EachStateEnteredOnce ==
  [](/\ \A s \in AppStates : <<s, s>> \notin AppPaths
     /\ \A e \in AppEvents : AppNext("FAIL", e) = "FAIL"
     /\ \A p \in { q \in Parties : obs[q].entered # {} } :
          /\ app[p].appState \in obs[p].entered
          /\ obs[p].entered \subseteq AppStates
          /\ \A s \in obs[p].entered \ {"FAIL", app[p].appState} :
               app[p].appState = "FAIL" \/ <<s, app[p].appState>> \in AppPaths
          /\ \A e \in AppEvents :
               LET W == appDispatch(World, p, e) IN
               /\ W.app[p].appState = AppNext(app[p].appState, e)
               /\ W.app[p].appState # "FAIL" => W.app[p].appState \notin obs[p].entered
               /\ W.obs[p].entered = obs[p].entered \cup {W.app[p].appState})

\* The end of a longest path: BOTH_REVEALED as the eighth state entered,
\* from where every event leads to FAIL.
C32BothRevealedAtTheEnd ==
  /\ app["alice"].appState = "BOTH_REVEALED"
  /\ Cardinality(obs["alice"].entered) = 8
  /\ \A e \in AppEvents : appDispatch(World, "alice", e).app["alice"].appState = "FAIL"
====
